---- MODULE Spec2Model ----
(***************************************************************************)
(* The ZCF configuration store (src/src/utils/output-style.ts, lines 349 to *)
(* 932: the zcf-config part of the file): legacy-location migration, the    *)
(* format-preserving TOML writer with its top-level field patcher, the      *)
(* legacy <-> TOML converters and the read / write / update / get API.      *)
(*                                                                          *)
(* Every JavaScript value is a string token: "undefined" is the absent      *)
(* value, "true"/"false" are the booleans, a token that starts with "[" is  *)
(* an array, a timestamp is the decimal text of the clock reading.          *)
(* A text is the sequence of its lines, as String.split('\n') gives them:   *)
(* the text is the lines joined by "\n", so a text that ends with a newline *)
(* has the empty line as its last element and the empty text is <<Blank>>.  *)
(***************************************************************************)
EXTENDS Integers, Sequences, FiniteSets, TLC

\* ------------------------------------------------------------------ bounds

\* The number of API calls of a run (each call reads the clock once).
MaxClock == 2

\* ------------------------------------------------------------------ values

undefined == "undefined"

SUPPORTED_LANGS == {"zh-CN", "en"}

CODE_TOOL_TYPES == {"claude-code", "codex"}

DEFAULT_CODE_TOOL_TYPE == "claude-code"

ZCF_CONFIG_FILE == "zcf/config.toml"

ZCF_CONFIG_JSON == "zcf/config.json"

LEGACY_ZCF_CONFIG_FILES == <<"claude/.zcf-config.json", "home/.zcf.json">>

\* JavaScript truthiness of a token: undefined, "" and false are falsy; every
\* other string and every array (the empty one too) is truthy.
Falsy(v) == v \in {undefined, "", "false"}

\* a || b
Or(a, b) == IF Falsy(a) THEN b ELSE a

\* a ?? b
Nullish(a, b) == IF a = undefined THEN b ELSE a

Bool(b) == IF b THEN "true" ELSE "false"

\* new Date().toISOString() at clock reading t
Iso(t) == ToString(t)

isSupportedLang(value) == value \in SUPPORTED_LANGS

isCodeToolType(value) == value \in CODE_TOOL_TYPES

sanitizePreferredLang(lang) == IF isSupportedLang(lang) THEN lang ELSE "en"

sanitizeCodeToolType(codeTool) == IF isCodeToolType(codeTool) THEN codeTool ELSE DEFAULT_CODE_TOOL_TYPE

\* ------------------------------------------------------------------- texts

\* One line of a document. k: "blank", "comment", "section" ([key]), "kv"
\* (key = val, then the trailing same-line comment cmt), "corrupt" (a line
\* that opens a section marker and never closes it). fmt of a kv line:
\* "plain" (starts at column 0, quoted value), "indented", "bare" (unquoted).
Line(k, key, val, cmt, fmt) == [k |-> k, key |-> key, val |-> val, cmt |-> cmt, fmt |-> fmt]

Blank == Line("blank", "", "", "", "plain")

Comment(c) == Line("comment", "", "", c, "plain")

Section(name) == Line("section", name, "", "", "plain")

KV(key, val) == Line("kv", key, val, "", "plain")

Corrupt(name) == Line("corrupt", name, "", "", "plain")

Last(s) == s[Len(s)]

Front(s) == SubSeq(s, 1, Len(s) - 1)

\* s with line x placed so that it becomes element i (1 <= i <= Len(s) + 1):
\* Array.splice(i - 1, 0, x)
InsertAt(s, i, x) == SubSeq(s, 1, i - 1) \o <<x>> \o SubSeq(s, i, Len(s))

\* text.endsWith('\n')
EndsWithNewline(text) == Len(text) >= 2 /\ Last(text) = Blank

\* a + b on texts: the last line of a and the first line of b become one line
Concat(a, b) ==
  IF Last(a) = Blank THEN Front(a) \o b
  ELSE IF Head(b) = Blank THEN a \o Tail(b)
  ELSE Front(a) \o <<Line("corrupt", Last(a).key, Head(b).key, "", "plain")>> \o Tail(b)

\* the line begins with "[": what /^\[/m matches
BeginsSection(l) == l.k \in {"section", "corrupt"} /\ l.fmt # "indented"

\* the name of the section line i lies in, "" in the top-level span
SectionOf(doc, i) ==
  LET hs == {j \in 1..i : doc[j].k = "section"}
  IN IF hs = {} THEN "" ELSE doc[CHOOSE j \in hs : \A h \in hs : h <= j].key

\* the indices of the lines that set sec.key
KeyLines(doc, sec, key) ==
  {i \in 1..Len(doc) : doc[i].k = "kv" /\ doc[i].key = key /\ SectionOf(doc, i) = sec}

Min(S) == CHOOSE x \in S : \A y \in S : x <= y

Max(S) == CHOOSE x \in S : \A y \in S : y <= x

\* ------------------------------------------------------- in-memory records

ArrayTokens == {"[]", "[engineer-professional]", "[nekomata-engineer]"}

TableTokens == {"{}", "{work}"}

BareTokens == {"true", "false"} \cup ArrayTokens \cup TableTokens

\* Array.isArray(v)
IsArray(v) == v \in ArrayTokens

ManagedSections == {"general", "claudeCode", "codex"}

GeneralKeys == <<"preferredLang", "templateLang", "aiOutputLang", "currentTool">>

ClaudeCodeKeys == <<"enabled", "outputStyles", "defaultOutputStyle", "installType", "currentProfile", "profiles", "version">>

CodexKeys == <<"enabled", "systemPromptStyle">>

Range(s) == {s[i] : i \in 1..Len(s)}

\* the keys of a managed section the store knows
ManagedKeys(sec) ==
  IF sec = "general" THEN Range(GeneralKeys)
  ELSE IF sec = "claudeCode" THEN Range(ClaudeCodeKeys)
  ELSE IF sec = "codex" THEN Range(CodexKeys)
  ELSE {}

\* A ZcfTomlConfig. has: the groups that are present (a parsed document may
\* lack any of them; every config the store builds has all three).
TomlConfig(version, lastUpdated, has, general, claudeCode, codex) ==
  [version |-> version, lastUpdated |-> lastUpdated, has |-> has,
   general |-> general, claudeCode |-> claudeCode, codex |-> codex]

\* A ZcfConfig (the legacy flat record), with the fields a legacy JSON file or
\* an untyped caller may add: systemPromptStyle, claudeCodeInstallation.type,
\* currentProfileId and claudeCode.profiles.
LegacyFields == {"version", "preferredLang", "templateLang", "aiOutputLang", "outputStyles",
                 "defaultOutputStyle", "codeToolType", "lastUpdated", "systemPromptStyle",
                 "installType", "currentProfileId", "profiles"}

NoLegacy == [f \in LegacyFields |-> undefined]

\* the fields of ZcfConfig that writeZcfConfig persists and readZcfConfig returns
AcceptedFields == {"version", "preferredLang", "templateLang", "aiOutputLang", "outputStyles",
                   "defaultOutputStyle", "codeToolType"}

\* --------------------------------------------------------- the format codec

FmtOf(val) == IF val \in BareTokens THEN "bare" ELSE "plain"

KVLine(key, val) == Line("kv", key, val, "", FmtOf(val))

Sections(doc) == {doc[i].key : i \in {j \in 1..Len(doc) : doc[j].k = "section"}}

\* The document is valid TOML: no unclosed section marker, no table defined
\* twice, no key set twice in one table.
WellFormed(doc) ==
  /\ \A i \in 1..Len(doc) : doc[i].k \in {"blank", "comment", "section", "kv"}
  /\ \A i, j \in 1..Len(doc) :
       (i < j /\ doc[i].k = "section" /\ doc[j].k = "section") => doc[i].key # doc[j].key
  /\ \A i, j \in 1..Len(doc) :
       (i < j /\ doc[i].k = "kv" /\ doc[j].k = "kv" /\ doc[i].key = doc[j].key)
         => SectionOf(doc, i) # SectionOf(doc, j)

\* the value the document gives sec.key, undefined when it sets none
Get(doc, sec, key) ==
  LET at == KeyLines(doc, sec, key)
  IN IF at = {} THEN undefined ELSE doc[Min(at)].val

\* parseToml<ZcfTomlConfig>(content) of a well-formed document: the managed
\* fields of the table it denotes (unmanaged keys are never read by the store)
parseToml(doc) ==
  TomlConfig(Get(doc, "", "version"), Get(doc, "", "lastUpdated"),
             Sections(doc) \cap ManagedSections,
             [k \in Range(GeneralKeys) |-> Get(doc, "general", k)],
             [k \in Range(ClaudeCodeKeys) |-> Get(doc, "claudeCode", k)],
             [k \in Range(CodexKeys) |-> Get(doc, "codex", k)])

\* the key lines of one table, in key order, undefined values left out
TableLines(keys, table) ==
  LET all == [i \in 1..Len(keys) |-> KVLine(keys[i], table[keys[i]])]
      Defined(l) == l.val # undefined
  IN SelectSeq(all, Defined)

\* stringifyToml(config): top-level scalars, then one table per group, every
\* table after a blank line; the text ends with a newline
stringifyToml(config) ==
  TableLines(<<"version", "lastUpdated">>, config)
    \o <<Blank, Section("general")>> \o TableLines(GeneralKeys, config.general)
    \o <<Blank, Section("claudeCode")>> \o TableLines(ClaudeCodeKeys, config.claudeCode)
    \o <<Blank, Section("codex")>> \o TableLines(CodexKeys, config.codex)
    \o <<Blank>>

\* ---------------------------------------------------- the incremental editor

\* the lines of table sec: its header and everything up to the next header
SectionSpan(doc, sec) == {i \in 1..Len(doc) : SectionOf(doc, i) = sec}

\* One edit (sec.key := val) on the text. An existing key keeps its line, its
\* indentation and its trailing comment and gets the new value; a new key of
\* an existing table goes after the table's last key; a new table is appended
\* to the document, after a blank line, with the key in it.
editToml(doc, sec, key, val) ==
  IF sec \in Sections(doc)
  THEN IF \E i \in 1..Len(doc) : doc[i].k = "kv" /\ doc[i].key = key /\ SectionOf(doc, i) = sec
       THEN LET i == Min(KeyLines(doc, sec, key))
            IN [doc EXCEPT ![i] = [@ EXCEPT !.val = val,
                                            !.fmt = IF @ = "indented" THEN @ ELSE FmtOf(val)]]
       ELSE LET at == Max({i \in SectionSpan(doc, sec) : doc[i].k \in {"kv", "section"}})
            IN InsertAt(doc, at + 1, KVLine(key, val))
  ELSE LET body == IF Last(doc) = Blank THEN Front(doc) ELSE doc
       IN body \o (IF body = << >> THEN << >> ELSE <<Blank>>)
               \o <<Section(sec), KVLine(key, val), Blank>>

RECURSIVE applyEdits(_, _)
applyEdits(doc, edits) ==
  IF edits = << >> THEN doc
  ELSE applyEdits(editToml(doc, Head(edits)[1], Head(edits)[2], Head(edits)[3]), Tail(edits))

\* batchEditToml(content, edits): the edits in order, on the text; it fails as
\* a whole (nothing is returned) when the document is not valid TOML or an
\* edit carries no value
batchEditToml(doc, edits) ==
  IF WellFormed(doc) /\ \A i \in 1..Len(edits) : edits[i][3] # undefined THEN [ok |-> TRUE, text |-> applyEdits(doc, edits)]
  ELSE [ok |-> FALSE, text |-> doc]


\* -------------------------------------------------- the top-level field patcher

\* /^name\s*=\s*["'][^"']*["'][ \t]*(?:#.*)?$/m on one line: the key at column
\* 0, a quoted value, then nothing but an optional trailing comment
MatchesField(l, name) == l.k = "kv" /\ l.key = name /\ l.fmt = "plain"

\* the lines of the text the pattern matches
FieldMatches(text, name) == {i \in 1..Len(text) : MatchesField(text[i], name)}

\* String.replace(regex, `name = "value"`): the first match, the whole of it
\* (the trailing comment is part of the match), becomes the new field line
ReplaceField(text, name, value) ==
  [text EXCEPT ![Min(FieldMatches(text, name))] = KV(name, value)]

\* insertLineIndex with the loop lost: the index stays 0
insertLineIndexZero(lines) == 0

\* the loop of insertAtTopLevelStart: the 0-based index of the first line
\* that is neither blank nor a comment, the number of lines when there is none
insertLineIndex(lines) ==
  LET content == {i \in 1..Len(lines) : lines[i].k \notin {"blank", "comment"}}
  IN IF content = {} THEN Len(lines) ELSE Min(content) - 1

\* insertAtTopLevelStart with the splice one line too far
insertAtTopLevelStartOffByOne(topLevel, content) ==
  InsertAt(topLevel, Min({insertLineIndex(topLevel) + 2, Len(topLevel) + 1}), content)

insertAtTopLevelStart(topLevel, content) ==
  InsertAt(topLevel, insertLineIndex(topLevel) + 1, content)

\* insertAfterVersionField without its anchor: always at the top-level start
insertAfterVersionFieldUnanchored(topLevel, content) == insertAtTopLevelStart(topLevel, content)

insertAfterVersionField(topLevel, content) ==
  IF FieldMatches(topLevel, "version") # {}
  THEN InsertAt(topLevel, Min(FieldMatches(topLevel, "version")) + 1, content)
  ELSE insertAtTopLevelStart(topLevel, content)

\* the lines that begin a section: the matches of /^\[/m
SectionStarts(content) == {i \in 1..Len(content) : BeginsSection(content[i])}

\* content.slice(0, topLevelEnd): the lines before the first section line, and
\* the newline that ends the last of them
TopLevelOf(content) ==
  IF SectionStarts(content) = {} THEN content
  ELSE SubSeq(content, 1, Min(SectionStarts(content)) - 1) \o <<Blank>>

\* content.slice(topLevelEnd); << >> is the empty string
RestOf(content) ==
  IF SectionStarts(content) = {} THEN << >>
  ELSE SubSeq(content, Min(SectionStarts(content)), Len(content))

\* PatchVersion with the update branch lost: an existing version line is kept
PatchVersionStale(topLevel, version) ==
  IF FieldMatches(topLevel, "version") # {} THEN topLevel
  ELSE InsertAt(topLevel, 1, KV("version", version))

\* the version step of updateTopLevelTomlFields
PatchVersion(topLevel, version) ==
  IF FieldMatches(topLevel, "version") # {}
  THEN ReplaceField(topLevel, "version", version)
  ELSE insertAtTopLevelStart(topLevel, KV("version", version))

\* the lastUpdated step of updateTopLevelTomlFields
PatchLastUpdated(topLevel, lastUpdated) ==
  IF FieldMatches(topLevel, "lastUpdated") # {}
  THEN ReplaceField(topLevel, "lastUpdated", lastUpdated)
  ELSE insertAfterVersionField(topLevel, KV("lastUpdated", lastUpdated))

\* EnsureNewline with the newline step lost
EnsureNewlineNever(topLevel, rest) == topLevel

\* the newline step: rest is non-empty and topLevel does not end with "\n"
EnsureNewline(topLevel, rest) ==
  IF rest # << >> /\ ~EndsWithNewline(topLevel) THEN topLevel \o <<Blank>> ELSE topLevel

updateTopLevelTomlFields(content, version, lastUpdated) ==
  LET rest == RestOf(content)
      patched == PatchLastUpdated(PatchVersion(TopLevelOf(content), version), lastUpdated)
      topLevel == EnsureNewline(patched, rest)
  IN IF rest = << >> THEN topLevel ELSE Concat(topLevel, rest)


\* ------------------------------------------------------------ the file system

\* What a path holds: whether a file exists there, and the lines of its text.
\* A JSON file is one line of kind "json" whose key names the record it holds.
File(present, text) == [exists |-> present, text |-> text]

Absent == File(FALSE, << >>)

TomlFile(text) == File(TRUE, text)

JsonFile(name) == File(TRUE, <<Line("json", name, "", "", "plain")>>)

\* legacy flat-JSON records found on disk
JsonA ==
  [NoLegacy EXCEPT !.version = "1.0.0", !.preferredLang = "zh-CN", !.codeToolType = "claude-code",
                   !.outputStyles = "[engineer-professional]", !.lastUpdated = "0"]

JsonB ==
  [NoLegacy EXCEPT !.version = "1.0.0", !.preferredLang = "en", !.codeToolType = "codex",
                   !.lastUpdated = "0"]

\* JSON.parse of the text of a JSON file
JsonRecord(name) == IF name = "JsonA" THEN JsonA ELSE JsonB

\* readFile(path)
readFile(file) == file.text

\* exists(path), existsSync(path)
exists(file) == file.exists

\* readJsonConfig(path): the record of a JSON file, null for anything else
readJsonConfig(file) ==
  IF file.exists /\ file.text # << >> /\ file.text[1].k = "json"
  THEN [null |-> FALSE, cfg |-> JsonRecord(file.text[1].key)]
  ELSE [null |-> TRUE, cfg |-> NoLegacy]

LegacyPaths == Range(LEGACY_ZCF_CONFIG_FILES)

Paths == {ZCF_CONFIG_FILE, ZCF_CONFIG_JSON} \cup LegacyPaths

\* The failures the file system injects into one call. mkdir, copy, ensureDir,
\* readFile: the call of that name fails; rename: how renameSync ends; rmFail:
\* the paths rmSync fails on; writeEdited: writeFile of the edited text fails;
\* writeFull: writeFile of the full serialization fails.
Faults(mkdir, rename, copy, rmFail, ensureDir, rd, writeEdited, writeFull) ==
  [mkdir |-> mkdir, rename |-> rename, copy |-> copy, rmFail |-> rmFail,
   ensureDir |-> ensureDir, readFile |-> rd, writeEdited |-> writeEdited, writeFull |-> writeFull]

NoFault == Faults(FALSE, "ok", FALSE, {}, FALSE, FALSE, FALSE, FALSE)

\* ------------------------------------------------------------- the converters

NullToml == [null |-> TRUE, cfg |-> parseToml(<<Blank>>)]

\* readTomlConfig(configPath): null when the file is absent, cannot be read or
\* does not parse
readTomlConfig(file, F) ==
  IF ~exists(file) \/ F.readFile \/ ~WellFormed(readFile(file)) THEN NullToml
  ELSE [null |-> FALSE, cfg |-> parseToml(readFile(file))]

createDefaultTomlConfig(preferredLang, claudeCodeInstallType, now) ==
  TomlConfig("1.0.0", Iso(now), ManagedSections,
    [preferredLang |-> preferredLang, templateLang |-> preferredLang,
     aiOutputLang |-> IF preferredLang = "zh-CN" THEN "zh-CN" ELSE undefined,
     currentTool |-> DEFAULT_CODE_TOOL_TYPE],
    [enabled |-> "true", outputStyles |-> "[engineer-professional]",
     defaultOutputStyle |-> "engineer-professional", installType |-> claudeCodeInstallType,
     currentProfile |-> "", profiles |-> "{}", version |-> undefined],
    [enabled |-> "false", systemPromptStyle |-> "engineer-professional"])

\* migrateFromJsonConfig with the enabled flags taken from the default config
migrateFromJsonConfigDefaultFlags(jsonConfig, now) ==
  LET claudeCodeInstallType == Or(jsonConfig.installType, "global")
      defaultConfig == createDefaultTomlConfig("en", claudeCodeInstallType, now)
  IN TomlConfig(
       Or(jsonConfig.version, defaultConfig.version),
       Or(jsonConfig.lastUpdated, Iso(now)),
       ManagedSections,
       [preferredLang |-> Or(jsonConfig.preferredLang, defaultConfig.general.preferredLang),
        templateLang |-> Or(jsonConfig.templateLang,
                            Or(jsonConfig.preferredLang, defaultConfig.general.preferredLang)),
        aiOutputLang |-> Or(jsonConfig.aiOutputLang, defaultConfig.general.aiOutputLang),
        currentTool |-> Or(jsonConfig.codeToolType, defaultConfig.general.currentTool)],
       [enabled |-> defaultConfig.claudeCode.enabled,
        outputStyles |-> Or(jsonConfig.outputStyles, defaultConfig.claudeCode.outputStyles),
        defaultOutputStyle |-> Nullish(jsonConfig.defaultOutputStyle,
                                       defaultConfig.claudeCode.defaultOutputStyle),
        installType |-> claudeCodeInstallType,
        currentProfile |-> Or(jsonConfig.currentProfileId, defaultConfig.claudeCode.currentProfile),
        profiles |-> Or(jsonConfig.profiles, "{}"),
        version |-> undefined],
       [enabled |-> defaultConfig.codex.enabled,
        systemPromptStyle |-> Or(jsonConfig.systemPromptStyle, defaultConfig.codex.systemPromptStyle)])

\* migrateFromJsonConfig with the install type of the record not read: the
\* default config is built for a global installation
migrateFromJsonConfigGlobalInstall(jsonConfig, now) ==
  LET claudeCodeInstallType == "global"
      defaultConfig == createDefaultTomlConfig("en", claudeCodeInstallType, now)
  IN TomlConfig(
       Or(jsonConfig.version, defaultConfig.version),
       Or(jsonConfig.lastUpdated, Iso(now)),
       ManagedSections,
       [preferredLang |-> Or(jsonConfig.preferredLang, defaultConfig.general.preferredLang),
        templateLang |-> Or(jsonConfig.templateLang,
                            Or(jsonConfig.preferredLang, defaultConfig.general.preferredLang)),
        aiOutputLang |-> Or(jsonConfig.aiOutputLang, defaultConfig.general.aiOutputLang),
        currentTool |-> Or(jsonConfig.codeToolType, defaultConfig.general.currentTool)],
       [enabled |-> Bool(jsonConfig.codeToolType = "claude-code"),
        outputStyles |-> Or(jsonConfig.outputStyles, defaultConfig.claudeCode.outputStyles),
        defaultOutputStyle |-> Nullish(jsonConfig.defaultOutputStyle,
                                       defaultConfig.claudeCode.defaultOutputStyle),
        installType |-> claudeCodeInstallType,
        currentProfile |-> Or(jsonConfig.currentProfileId, defaultConfig.claudeCode.currentProfile),
        profiles |-> Or(jsonConfig.profiles, "{}"),
        version |-> undefined],
       [enabled |-> Bool(jsonConfig.codeToolType = "codex"),
        systemPromptStyle |-> Or(jsonConfig.systemPromptStyle, defaultConfig.codex.systemPromptStyle)])

migrateFromJsonConfig(jsonConfig, now) ==
  LET claudeCodeInstallType == Or(jsonConfig.installType, "global")
      defaultConfig == createDefaultTomlConfig("en", claudeCodeInstallType, now)
  IN TomlConfig(
       Or(jsonConfig.version, defaultConfig.version),
       Or(jsonConfig.lastUpdated, Iso(now)),
       ManagedSections,
       [preferredLang |-> Or(jsonConfig.preferredLang, defaultConfig.general.preferredLang),
        templateLang |-> Or(jsonConfig.templateLang,
                            Or(jsonConfig.preferredLang, defaultConfig.general.preferredLang)),
        aiOutputLang |-> Or(jsonConfig.aiOutputLang, defaultConfig.general.aiOutputLang),
        currentTool |-> Or(jsonConfig.codeToolType, defaultConfig.general.currentTool)],
       [enabled |-> Bool(jsonConfig.codeToolType = "claude-code"),
        outputStyles |-> Or(jsonConfig.outputStyles, defaultConfig.claudeCode.outputStyles),
        defaultOutputStyle |-> Nullish(jsonConfig.defaultOutputStyle,
                                       defaultConfig.claudeCode.defaultOutputStyle),
        installType |-> claudeCodeInstallType,
        currentProfile |-> Or(jsonConfig.currentProfileId, defaultConfig.claudeCode.currentProfile),
        profiles |-> Or(jsonConfig.profiles, "{}"),
        version |-> undefined],
       [enabled |-> Bool(jsonConfig.codeToolType = "codex"),
        systemPromptStyle |-> Or(jsonConfig.systemPromptStyle, defaultConfig.codex.systemPromptStyle)])

\* tomlConfig.general.preferredLang and tomlConfig.claudeCode.outputStyles are
\* read without a guard: a TypeError when the group is absent
convertThrows(tomlConfig) == ~({"general", "claudeCode"} \subseteq tomlConfig.has)

convertTomlToLegacyConfig(tomlConfig) ==
  [NoLegacy EXCEPT !.version = tomlConfig.version,
                   !.preferredLang = tomlConfig.general.preferredLang,
                   !.templateLang = tomlConfig.general.templateLang,
                   !.aiOutputLang = tomlConfig.general.aiOutputLang,
                   !.outputStyles = tomlConfig.claudeCode.outputStyles,
                   !.defaultOutputStyle = tomlConfig.claudeCode.defaultOutputStyle,
                   !.codeToolType = tomlConfig.general.currentTool,
                   !.lastUpdated = tomlConfig.lastUpdated]

convertLegacyToTomlConfig(legacyConfig, now) == migrateFromJsonConfig(legacyConfig, now)

\* typeof v === 'string'
IsString(v) == v # undefined /\ v \notin BareTokens

normalizeZcfConfig(config, now) ==
  [NoLegacy EXCEPT !.version = IF IsString(config.version) THEN config.version ELSE "1.0.0",
                   !.preferredLang = sanitizePreferredLang(config.preferredLang),
                   !.templateLang = IF Falsy(config.templateLang) THEN undefined
                                    ELSE sanitizePreferredLang(config.templateLang),
                   !.aiOutputLang = config.aiOutputLang,
                   !.outputStyles = IF IsArray(config.outputStyles) THEN config.outputStyles
                                    ELSE undefined,
                   !.defaultOutputStyle = IF IsString(config.defaultOutputStyle)
                                          THEN config.defaultOutputStyle ELSE undefined,
                   !.codeToolType = sanitizeCodeToolType(config.codeToolType),
                   !.lastUpdated = IF IsString(config.lastUpdated) THEN config.lastUpdated
                                   ELSE Iso(now)]


\* ------------------------------------------------------------------ the store

\* The part of the file system the store touches: what each path holds, and
\* whether ZCF_CONFIG_DIR exists.
Store(files, dir) == [files |-> files, dir |-> dir]

\* `edits` of writeTomlConfig: <<section, key, value>> for every required
\* field, and for an optional field when its value is defined
\* Opt without its test: the edit is pushed whatever the value is
OptAlways(sec, key, val) == <<(<<sec, key, val>>)>>

Opt(sec, key, val) == IF val # undefined THEN <<(<<sec, key, val>>)>> ELSE << >>

BuildEdits(config) ==
  <<(<<"general", "preferredLang", config.general.preferredLang>>),
    (<<"general", "currentTool", config.general.currentTool>>)>>
    \o Opt("general", "templateLang", config.general.templateLang)
    \o Opt("general", "aiOutputLang", config.general.aiOutputLang)
    \o <<(<<"claudeCode", "enabled", config.claudeCode.enabled>>),
         (<<"claudeCode", "outputStyles", config.claudeCode.outputStyles>>),
         (<<"claudeCode", "installType", config.claudeCode.installType>>)>>
    \o Opt("claudeCode", "defaultOutputStyle", config.claudeCode.defaultOutputStyle)
    \o Opt("claudeCode", "currentProfile", config.claudeCode.currentProfile)
    \o Opt("claudeCode", "profiles", config.claudeCode.profiles)
    \o Opt("claudeCode", "version", config.claudeCode.version)
    \o <<(<<"codex", "enabled", config.codex.enabled>>),
         (<<"codex", "systemPromptStyle", config.codex.systemPromptStyle>>)>>

\* The result of a step that writes the config file: the file afterwards,
\* whether the step threw, and which text it tried to write ("edited": the
\* incrementally edited one, "fallback": the full serialization after the
\* editor failed, "fresh": the full serialization of a new file, "none").
Written(threw, file, route) == [threw |-> threw, file |-> file, route |-> route]

\* the inner try of writeTomlConfig: edit, patch the top-level fields, write
IncrementalWrite(file, config, F) ==
  LET e == batchEditToml(readFile(file), BuildEdits(config))
  IN IF ~e.ok \/ F.writeEdited THEN Written(TRUE, file, "edited")
     ELSE Written(FALSE,
                  TomlFile(updateTopLevelTomlFields(e.text, config.version, config.lastUpdated)),
                  "edited")

\* stringifyToml(config), then writeFile
FullWrite(file, config, F, route) ==
  IF F.writeFull THEN Written(TRUE, file, route)
  ELSE Written(FALSE, TomlFile(stringifyToml(config)), route)

\* RewriteExisting with an empty catch: no fallback to the full serialization
RewriteExistingNoFallback(file, config, F) ==
  LET inc == IncrementalWrite(file, config, F)
  IN IF inc.threw THEN Written(FALSE, file, "fallback") ELSE inc

\* the existing-file branch: the inner try and its catch
RewriteExisting(file, config, F) ==
  LET inc == IncrementalWrite(file, config, F)
  IN IF inc.threw THEN FullWrite(file, config, F, "fallback") ELSE inc

\* the outer try block of writeTomlConfig, before its catch
writeTomlConfigTry(store, config, F) ==
  LET file == store.files[ZCF_CONFIG_FILE]
      w == IF F.ensureDir \/ (exists(file) /\ F.readFile) THEN Written(TRUE, file, "none")
           ELSE IF exists(file) THEN RewriteExisting(file, config, F)
           ELSE FullWrite(file, config, F, "fresh")
  IN [threw |-> w.threw, route |-> w.route, wrote |-> ~w.threw, toml |-> config,
      store |-> Store([store.files EXCEPT ![ZCF_CONFIG_FILE] = w.file],
                      store.dir \/ ~F.ensureDir)]

\* writeTomlConfig without its outer catch
writeTomlConfigNoCatch(store, config, F) == writeTomlConfigTry(store, config, F)

\* writeTomlConfig(ZCF_CONFIG_FILE, config): the outer catch swallows the throw
writeTomlConfig(store, config, F) ==
  [writeTomlConfigTry(store, config, F) EXCEPT !.threw = FALSE]

\* a key an update's group does not have
Missing == "<missing>"

\* a group of a PartialZcfTomlConfig that supplies no key
NoGroup(sec) == [k \in ManagedKeys(sec) |-> Missing]

\* a PartialZcfTomlConfig that supplies nothing
NoUpdates ==
  [version |-> undefined, lastUpdated |-> undefined, general |-> NoGroup("general"),
   claudeCode |-> NoGroup("claudeCode"), codex |-> NoGroup("codex")]

\* SpreadGroup with a table of the update merged into the existing table: an
\* empty profiles table of the update leaves the existing profiles standing
SpreadGroupDeep(existing, updates) ==
  [k \in DOMAIN existing |->
     IF updates[k] = Missing \/ (k = "profiles" /\ updates[k] = "{}" /\ ~Falsy(existing[k]))
     THEN existing[k] ELSE updates[k]]

\* { ...existing, ...updates }: every key the update has replaces the
\* existing value, whatever the value is
SpreadGroup(existing, updates) ==
  [k \in DOMAIN existing |-> IF updates[k] = Missing THEN existing[k] ELSE updates[k]]

\* MergeTomlUpdates with the update's own lastUpdated taken when it has one
MergeTomlUpdatesStampFromCaller(existingConfig, updates, now) ==
  TomlConfig(Or(updates.version, existingConfig.version), Or(updates.lastUpdated, Iso(now)),
             ManagedSections,
             [k \in DOMAIN existingConfig.general |->
                IF updates.general[k] = Missing THEN existingConfig.general[k]
                ELSE updates.general[k]],
             [k \in DOMAIN existingConfig.claudeCode |->
                IF updates.claudeCode[k] = Missing THEN existingConfig.claudeCode[k]
                ELSE updates.claudeCode[k]],
             [k \in DOMAIN existingConfig.codex |->
                IF updates.codex[k] = Missing THEN existingConfig.codex[k]
                ELSE updates.codex[k]])

\* updatedConfig of updateTomlConfig
MergeTomlUpdates(existingConfig, updates, now) ==
  TomlConfig(Or(updates.version, existingConfig.version), Iso(now), ManagedSections,
             SpreadGroup(existingConfig.general, updates.general),
             SpreadGroup(existingConfig.claudeCode, updates.claudeCode),
             SpreadGroup(existingConfig.codex, updates.codex))

\* updateTomlConfig(ZCF_CONFIG_FILE, updates): the config it returns is in toml
updateTomlConfig(store, updates, F, now) ==
  LET read == readTomlConfig(store.files[ZCF_CONFIG_FILE], F)
      existingConfig == IF read.null THEN createDefaultTomlConfig("en", "global", now)
                        ELSE read.cfg
  IN writeTomlConfig(store, MergeTomlUpdates(existingConfig, updates, now), F)

\* NextTomlConfig with the carry-forward lost: the converted config as it is
NextTomlConfigNoCarry(sanitizedConfig, existingTomlConfig, now) ==
  convertLegacyToTomlConfig(sanitizedConfig, now)

\* the carry-forward of writeZcfConfig: the config handed to writeTomlConfig
NextTomlConfig(sanitizedConfig, existingTomlConfig, now) ==
  LET tomlConfig == convertLegacyToTomlConfig(sanitizedConfig, now)
      existing == existingTomlConfig.cfg
      nextSystemPromptStyle ==
        Or(sanitizedConfig.systemPromptStyle,
           IF existingTomlConfig.null \/ "codex" \notin existing.has THEN undefined
           ELSE existing.codex.systemPromptStyle)
      carry == ~existingTomlConfig.null /\ "claudeCode" \in existing.has
  IN [tomlConfig EXCEPT
        !.codex.systemPromptStyle = IF Falsy(nextSystemPromptStyle) THEN @ ELSE nextSystemPromptStyle,
        !.claudeCode.profiles = IF carry /\ ~Falsy(existing.claudeCode.profiles)
                                THEN existing.claudeCode.profiles ELSE @,
        !.claudeCode.currentProfile = IF carry /\ existing.claudeCode.currentProfile # undefined
                                      THEN existing.claudeCode.currentProfile ELSE @,
        !.claudeCode.version = IF carry /\ ~Falsy(existing.claudeCode.version)
                               THEN existing.claudeCode.version ELSE @]

\* the try block of writeZcfConfig, before its catch
writeZcfConfigTry(store, config, F, now) ==
  LET sanitizedConfig == [config EXCEPT !.codeToolType = sanitizeCodeToolType(config.codeToolType)]
      existingTomlConfig == readTomlConfig(store.files[ZCF_CONFIG_FILE], F)
      tomlConfig == NextTomlConfig(sanitizedConfig, existingTomlConfig, now)
  IN writeTomlConfig(store, tomlConfig, F)

\* writeZcfConfig(config): its catch swallows whatever the try block throws
writeZcfConfig(store, config, F, now) ==
  [writeZcfConfigTry(store, config, F, now) EXCEPT !.threw = FALSE]


\* --------------------------------------------------------------- migration

\* legacySources in the reverse of the priority order
legacySourcesReversed(store) ==
  LET Exists(path) == exists(store.files[path])
      n == Len(LEGACY_ZCF_CONFIG_FILES)
  IN SelectSeq([i \in 1..n |-> LEGACY_ZCF_CONFIG_FILES[n + 1 - i]], Exists)

\* LEGACY_ZCF_CONFIG_FILES.filter(path => existsSync(path))
legacySources(store) ==
  LET Exists(path) == exists(store.files[path])
  IN SelectSeq(LEGACY_ZCF_CONFIG_FILES, Exists)

\* Cleanup with the loop body lost: nothing is removed
CleanupNothing(files, paths, F) == files

\* the cleanup loops: rmSync on each path in turn, a failure is ignored
Cleanup(files, paths, F) ==
  [p \in Paths |-> IF p \in Range(paths) /\ p \notin F.rmFail THEN Absent ELSE files[p]]

Removed(paths, F) ==
  LET Gone(path) == path \notin F.rmFail
  IN SelectSeq(paths, Gone)

\* What migrateZcfConfigIfNeeded leaves: the store, whether it threw, and the
\* ZcfConfigMigrationResult it returned (source is "" when there is none).
Migration(store, threw, migrated, source, removed) ==
  [store |-> store, threw |-> threw, migrated |-> migrated, source |-> source, removed |-> removed]

\* MoveFirstLegacy with the cross-device fallback copying the source and not
\* deleting it
MoveFirstLegacyCopyOnly(store, F) ==
  LET sources == legacySources(store)
      source == sources[1]
      made == Store(store.files, TRUE)
      moved == [store.files EXCEPT ![ZCF_CONFIG_FILE] = store.files[source], ![source] = Absent]
      copied == [store.files EXCEPT ![ZCF_CONFIG_FILE] = store.files[source]]
      done == Migration(Store(Cleanup(moved, Tail(sources), F), TRUE), FALSE, TRUE, source,
                        Removed(Tail(sources), F))
      kept == Migration(Store(Cleanup(copied, Tail(sources), F), TRUE), FALSE, TRUE, source,
                        Removed(Tail(sources), F))
  IN IF ~store.dir /\ F.mkdir THEN Migration(store, TRUE, FALSE, "", << >>)
     ELSE IF F.rename = "ok" THEN done
     ELSE IF F.rename # "EXDEV" \/ F.copy THEN Migration(made, TRUE, FALSE, "", << >>)
     ELSE kept

\* the branch that moves the first legacy source to the target
MoveFirstLegacy(store, F) ==
  LET sources == legacySources(store)
      source == sources[1]
      made == Store(store.files, TRUE)
      moved == [store.files EXCEPT ![ZCF_CONFIG_FILE] = store.files[source], ![source] = Absent]
      copied == [store.files EXCEPT ![ZCF_CONFIG_FILE] = store.files[source]]
      done == Migration(Store(Cleanup(moved, Tail(sources), F), TRUE), FALSE, TRUE, source,
                        Removed(Tail(sources), F))
  IN IF ~store.dir /\ F.mkdir THEN Migration(store, TRUE, FALSE, "", << >>)
     ELSE IF F.rename = "ok" THEN done
     ELSE IF F.rename # "EXDEV" \/ F.copy THEN Migration(made, TRUE, FALSE, "", << >>)
     ELSE IF source \in F.rmFail THEN Migration(Store(copied, TRUE), TRUE, FALSE, "", << >>)
     ELSE done

\* migrateZcfConfigIfNeeded with the target check lost: it moves whenever a
\* legacy source exists
migrateIgnoringTarget(store, F) ==
  IF Len(legacySources(store)) > 0 THEN MoveFirstLegacy(store, F)
  ELSE Migration(store, FALSE, FALSE, "", << >>)

migrateZcfConfigIfNeeded(store, F) ==
  LET targetExists == exists(store.files[ZCF_CONFIG_FILE])
      sources == legacySources(store)
  IN IF ~targetExists /\ Len(sources) > 0 THEN MoveFirstLegacy(store, F)
     ELSE IF targetExists /\ Len(sources) > 0
     THEN Migration(Store(Cleanup(store.files, sources, F), store.dir), FALSE, FALSE, "",
                    Removed(sources, F))
     ELSE Migration(store, FALSE, FALSE, "", << >>)

\* ------------------------------------------------------------------- reading

\* What a read leaves: the store, whether it threw, and the ZcfConfig it
\* returned (null: it returned null).
ReadResult(store, threw, null, cfg) == [store |-> store, threw |-> threw, null |-> null, cfg |-> cfg]

\* ReadableLegacy with the loop running from the end of the list
ReadableLegacyReversed(store) ==
  LET Readable(path) == exists(store.files[path]) /\ ~readJsonConfig(store.files[path]).null
      n == Len(LEGACY_ZCF_CONFIG_FILES)
  IN SelectSeq([i \in 1..n |-> LEGACY_ZCF_CONFIG_FILES[n + 1 - i]], Readable)

\* the legacy paths, in list order, that exist and hold a JSON record
ReadableLegacy(store) ==
  LET Readable(path) == exists(store.files[path]) /\ ~readJsonConfig(store.files[path]).null
  IN SelectSeq(LEGACY_ZCF_CONFIG_FILES, Readable)

\* readZcfConfig after the migration step
readAfterMigration(store, F, now) ==
  LET tomlConfig == readTomlConfig(store.files[ZCF_CONFIG_FILE], F)
      raw == readJsonConfig(store.files[ZCF_CONFIG_JSON])
      legacy == ReadableLegacy(store)
  IN IF ~tomlConfig.null
     THEN IF convertThrows(tomlConfig.cfg) THEN ReadResult(store, TRUE, TRUE, NoLegacy)
          ELSE ReadResult(store, FALSE, FALSE, convertTomlToLegacyConfig(tomlConfig.cfg))
     ELSE IF ~raw.null THEN ReadResult(store, FALSE, FALSE, normalizeZcfConfig(raw.cfg, now))
     ELSE IF legacy # << >>
     THEN ReadResult(store, FALSE, FALSE,
                     normalizeZcfConfig(readJsonConfig(store.files[legacy[1]]).cfg, now))
     ELSE ReadResult(store, FALSE, TRUE, NoLegacy)

\* readZcfConfig without its first statement: no migration before the reads
readZcfConfigNoMigration(store, F, now) == readAfterMigration(store, F, now)

readZcfConfig(store, F, now) ==
  LET m == migrateZcfConfigIfNeeded(store, F)
  IN IF m.threw THEN ReadResult(m.store, TRUE, TRUE, NoLegacy)
     ELSE readAfterMigration(m.store, F, now)

\* the default getZcfConfig returns when readZcfConfig returns null
DefaultZcfConfig(now) ==
  [NoLegacy EXCEPT !.version = "1.0.0", !.preferredLang = "en",
                   !.codeToolType = DEFAULT_CODE_TOOL_TYPE, !.lastUpdated = Iso(now)]

\* getZcfConfig() and getZcfConfigAsync()
getZcfConfig(store, F, now) ==
  LET r == readZcfConfig(store, F, now)
  IN IF r.threw \/ ~r.null THEN r ELSE ReadResult(r.store, FALSE, FALSE, DefaultZcfConfig(now))

\* ------------------------------------------------------------------ updating

\* newConfig of updateZcfConfig; existing is what readZcfConfig returned
MergeUpdates(updates, existing, now) ==
  LET old == IF existing.null THEN NoLegacy ELSE existing.cfg
  IN [NoLegacy EXCEPT
        !.version = Or(updates.version, Or(old.version, "1.0.0")),
        !.preferredLang = Or(updates.preferredLang, Or(old.preferredLang, "en")),
        !.templateLang = IF updates.templateLang # undefined THEN updates.templateLang
                         ELSE old.templateLang,
        !.aiOutputLang = Or(updates.aiOutputLang, old.aiOutputLang),
        !.outputStyles = IF updates.outputStyles # undefined THEN updates.outputStyles
                         ELSE old.outputStyles,
        !.defaultOutputStyle = IF updates.defaultOutputStyle # undefined
                               THEN updates.defaultOutputStyle ELSE old.defaultOutputStyle,
        !.codeToolType = Or(updates.codeToolType, Or(old.codeToolType, DEFAULT_CODE_TOOL_TYPE)),
        !.lastUpdated = Iso(now)]

\* updateZcfConfig(updates): a throw of readZcfConfig is not caught
updateZcfConfig(store, updates, F, now) ==
  LET r == readZcfConfig(store, F, now)
      newConfig == MergeUpdates(updates, r, now)
      w == writeZcfConfig(r.store, newConfig, F, now)
  IN IF r.threw THEN [threw |-> TRUE, route |-> "none", wrote |-> FALSE,
                      toml |-> NullToml.cfg, store |-> r.store]
     ELSE w


\* ------------------------------------------------------------ output styles

\* OUTPUT_STYLES: the styles with a template file and the built-in ones (two
\* custom styles and one built-in style stand for the nine of the list)
CustomStyles == {"engineer-professional", "nekomata-engineer"}

BuiltinStyles == {"default"}

\* the style ids of a list of styles
StyleIds(list) ==
  IF list = "[engineer-professional]" THEN {"engineer-professional"}
  ELSE IF list = "[nekomata-engineer]" THEN {"nekomata-engineer"}
  ELSE {}

\* The files configureOutputStyle works on: the ZCF config store (files, dir),
\* the settings file (whether it exists, its outputStyle key, undefined when
\* it has none, and another key of the user's), the output-styles directory
\* (whether it exists, the style files in it) and whether legacy personality
\* files lie in the Claude directory.
StyleStore(files, dir, settings, styles, legacy) ==
  [files |-> files, dir |-> dir, settings |-> settings, styles |-> styles, legacy |-> legacy]

\* copyOutputStyles(selectedStyles, lang): the directory is ensured, the
\* template of every selected custom style is copied into it
copyOutputStyles(styles, selectedStyles) ==
  [dir |-> TRUE, files |-> styles.files \cup (StyleIds(selectedStyles) \cap CustomStyles)]

\* setGlobalDefaultOutputStyle with the key left as it was
setGlobalDefaultOutputStyleStale(settings, styleId) == [settings EXCEPT !.exists = TRUE]

\* setGlobalDefaultOutputStyle(styleId)
setGlobalDefaultOutputStyle(settings, styleId) ==
  [settings EXCEPT !.exists = TRUE, !.outputStyle = styleId]

\* clearGlobalOutputStyle writing an empty settings object
clearGlobalOutputStyleEmpty(settings) ==
  [k \in DOMAIN settings |-> IF k = "exists" THEN TRUE ELSE undefined]

\* clearGlobalOutputStyle()
clearGlobalOutputStyle(settings) == [settings EXCEPT !.exists = TRUE, !.outputStyle = undefined]

\* What configureOutputStyle leaves: the files, how it ended ("cancelled",
\* "cleared", "builtin", "installed"), the default style it set, whether it
\* threw, and the config write it made.
Configured(store, outcome, style, w) ==
  [store |-> store, outcome |-> outcome, style |-> style, threw |-> w.threw, wrote |-> w.wrote,
   route |-> w.route, toml |-> w.toml]

\* the state and result after the closing updateZcfConfig returned w: the
\* files it left, beside the settings file and the styles directory
Persisted(w, settings, styles, legacy, outcome, style) ==
  Configured(StyleStore(w.store.files, w.store.dir, settings, styles, legacy), outcome, style, w)

\* setGlobalDefaultOutputStyle or clearGlobalOutputStyle has run and left
\* settings; then updateZcfConfig({ outputStyles, defaultOutputStyle })
PersistStyle(store, settings, styles, outcome, outputStyles, defaultOutputStyle, F, now) ==
  Persisted(updateZcfConfig(store, [NoLegacy EXCEPT !.outputStyles = outputStyles,
                                                    !.defaultOutputStyle = defaultOutputStyle],
                            F, now),
            settings, styles, store.legacy, outcome, defaultOutputStyle)

\* how a configureOutputStyle with the answers a ends: "installed" (the
\* non-interactive mode, or styles ticked and a default chosen), "cancelled"
\* (a default prompt returned nothing), "cleared" (no style ticked, "__none__"
\* chosen), "builtin" (no style ticked, a built-in style chosen)
StyleOutcome(a) ==
  IF a.preselectedStyles # undefined /\ ~Falsy(a.preselectedDefault) THEN "installed"
  ELSE IF Falsy(a.promptedDefault) THEN "cancelled"
  ELSE IF Or(a.promptedStyles, "[]") # "[]" THEN "installed"
  ELSE IF a.promptedDefault = "__none__" THEN "cleared"
  ELSE "builtin"

\* configureOutputStyle with the ticked styles copied before the default
\* prompt is answered
configureOutputStyleCopyFirst(store, a, F, now) ==
  LET cleaned == IF store.legacy /\ (a.preselectedStyles # undefined \/ a.cleanupLegacy)
                 THEN [store EXCEPT !.legacy = FALSE] ELSE store
      nothing == [threw |-> FALSE, wrote |-> FALSE, route |-> "none", toml |-> NullToml.cfg]
      outcome == StyleOutcome(a)
      preselected == a.preselectedStyles # undefined /\ ~Falsy(a.preselectedDefault)
      selectedStyles == IF preselected THEN a.preselectedStyles ELSE Or(a.promptedStyles, "[]")
      defaultStyle == IF preselected THEN a.preselectedDefault ELSE a.promptedDefault
      settings == IF outcome = "cleared" THEN clearGlobalOutputStyle(cleaned.settings)
                  ELSE setGlobalDefaultOutputStyle(cleaned.settings, defaultStyle)
      styles == IF outcome = "installed" THEN copyOutputStyles(cleaned.styles, selectedStyles)
                ELSE cleaned.styles
  IN IF outcome = "cancelled"
     THEN Configured([cleaned EXCEPT !.styles = copyOutputStyles(cleaned.styles, selectedStyles)],
                     "cancelled", undefined, nothing)
     ELSE PersistStyle(cleaned, settings, styles, outcome, selectedStyles,
                       IF outcome = "cleared" THEN "none" ELSE defaultStyle, F, now)

\* configureOutputStyle(preselectedStyles, preselectedDefault); a holds the
\* arguments and what the user answers to the prompts. The legacy files are
\* cleaned up first; a cancelled prompt returns; every other path sets or
\* clears the default in the settings file, copies the selected styles when
\* there are any, and ends with updateZcfConfig.
configureOutputStyle(store, a, F, now) ==
  LET cleaned == IF store.legacy /\ (a.preselectedStyles # undefined \/ a.cleanupLegacy)
                 THEN [store EXCEPT !.legacy = FALSE] ELSE store
      nothing == [threw |-> FALSE, wrote |-> FALSE, route |-> "none", toml |-> NullToml.cfg]
      outcome == StyleOutcome(a)
      preselected == a.preselectedStyles # undefined /\ ~Falsy(a.preselectedDefault)
      selectedStyles == IF preselected THEN a.preselectedStyles ELSE Or(a.promptedStyles, "[]")
      defaultStyle == IF preselected THEN a.preselectedDefault ELSE a.promptedDefault
      settings == IF outcome = "cleared" THEN clearGlobalOutputStyle(cleaned.settings)
                  ELSE setGlobalDefaultOutputStyle(cleaned.settings, defaultStyle)
      styles == IF outcome = "installed" THEN copyOutputStyles(cleaned.styles, selectedStyles)
                ELSE cleaned.styles
  IN IF outcome = "cancelled" THEN Configured(cleaned, "cancelled", undefined, nothing)
     ELSE PersistStyle(cleaned, settings, styles, outcome, selectedStyles,
                       IF outcome = "cleared" THEN "none" ELSE defaultStyle, F, now)

\* ------------------------------------------------- /bmad-init: .gitignore

\* Legacy entries to clean from .gitignore
LEGACY_GITIGNORE_ENTRIES ==
  <<".bmad-core", ".bmad-method", ".claude/commands/BMad", "{output_folder}">>

\* V6 .gitignore entries
V6_GITIGNORE_ENTRIES == <<"_bmad/", "_bmad-output/">>

\* String.split('\n')
RECURSIVE SplitLines(_)
SplitLines(content) ==
  IF \E i \in 1..Len(content) : SubSeq(content, i, i) = "\n"
  THEN LET i == CHOOSE i \in 1..Len(content) :
                  /\ SubSeq(content, i, i) = "\n"
                  /\ \A j \in 1..(i - 1) : SubSeq(content, j, j) # "\n"
       IN <<SubSeq(content, 1, i - 1)>> \o SplitLines(SubSeq(content, i + 1, Len(content)))
  ELSE <<content>>

\* Array.join('\n')
RECURSIVE JoinLines(_)
JoinLines(lines) ==
  IF lines = << >> THEN ""
  ELSE IF Len(lines) = 1 THEN lines[1]
  ELSE lines[1] \o "\n" \o JoinLines(Tail(lines))

\* String.trim(): the text without the white space at its two ends
trim(line) ==
  LET Inked == {i \in 1..Len(line) : SubSeq(line, i, i) \notin {" ", "\t", "\r"}}
  IN IF Inked = {} THEN ""
     ELSE SubSeq(line, CHOOSE i \in Inked : \A j \in Inked : i <= j,
                 CHOOSE i \in Inked : \A j \in Inked : i >= j)

\* entry.replace(/\/$/, '')
StripTrailingSlash(entry) ==
  IF Len(entry) > 0 /\ SubSeq(entry, Len(entry), Len(entry)) = "/"
  THEN SubSeq(entry, 1, Len(entry) - 1) ELSE entry

\* isLegacy matching the bare entry only
isLegacyBareOnly(line) ==
  \E n \in 1..Len(LEGACY_GITIGNORE_ENTRIES) : trim(line) = LEGACY_GITIGNORE_ENTRIES[n]

\* isLegacy of updateGitignore's filter
isLegacy(line) ==
  \E n \in 1..Len(LEGACY_GITIGNORE_ENTRIES) :
    \/ trim(line) = LEGACY_GITIGNORE_ENTRIES[n]
    \/ trim(line) = LEGACY_GITIGNORE_ENTRIES[n] \o "/"
    \/ trim(line) = "/" \o LEGACY_GITIGNORE_ENTRIES[n]

\* alreadyExists for one V6 entry
alreadyExists(filtered, entry) ==
  \E n \in 1..Len(filtered) :
    \/ trim(filtered[n]) = entry
    \/ trim(filtered[n]) = StripTrailingSlash(entry)
    \/ trim(filtered[n]) = "/" \o StripTrailingSlash(entry)

\* a .gitignore file
Gitignore(present, content) == [exists |-> present, content |-> content]

\* updateGitignore(cwd) on the .gitignore file; writeFails is
\* fs.writeFileSync throwing
updateGitignore(file, writeFails) ==
  LET lines == SplitLines(IF file.exists THEN file.content ELSE "")
      filtered == SelectSeq(lines, LAMBDA line : ~isLegacy(line))
      newEntries == SelectSeq(V6_GITIGNORE_ENTRIES, LAMBDA entry : ~alreadyExists(filtered, entry))
      changed == Len(filtered) # Len(lines) \/ newEntries # << >>
      joined == JoinLines(filtered)
      ended == IF Len(joined) > 0 /\ SubSeq(joined, Len(joined), Len(joined)) # "\n"
               THEN joined \o "\n" ELSE joined
      result == IF newEntries # << >>
                THEN ended \o "\n# BMad Method V6\n" \o JoinLines(newEntries) \o "\n"
                ELSE joined
  IN IF ~changed THEN [file |-> file, wrote |-> FALSE, threw |-> FALSE]
     ELSE IF writeFails THEN [file |-> file, wrote |-> FALSE, threw |-> TRUE]
     ELSE [file |-> Gitignore(TRUE, result), wrote |-> TRUE, threw |-> FALSE]

\* --------------------------------------- /bmad-init: {output_folder}

\* the names an entry of either directory may have, and what an entry holds
EntryNames == {"planning-artifacts", "implementation-artifacts", "notes.md"}

EntryContents == {"x", "y"}

\* a directory: whether it exists and, for each name, what the entry of that
\* name holds, Missing when there is none
Directory(present, entries) == [exists |-> present, entries |-> entries]

NoDirectory == Directory(FALSE, [name \in EntryNames |-> Missing])

\* fixOutputFolderBug(cwd) on {output_folder} (buggy) and _bmad-output
\* (correct); renameFails is the first fs.renameSync throwing
fixOutputFolderBug(dirs, renameFails) ==
  LET buggy == dirs.buggy
      correct == dirs.correct
      moved == {name \in EntryNames :
                  buggy.entries[name] # Missing /\ correct.entries[name] = Missing}
  IN IF ~buggy.exists THEN [dirs |-> dirs, ret |-> "false", threw |-> FALSE]
     ELSE IF ~correct.exists
     THEN IF renameFails THEN [dirs |-> dirs, ret |-> undefined, threw |-> TRUE]
          ELSE [dirs |-> [buggy |-> NoDirectory, correct |-> buggy], ret |-> "true",
                threw |-> FALSE]
     ELSE IF renameFails /\ moved # {} THEN [dirs |-> dirs, ret |-> undefined, threw |-> TRUE]
     ELSE [dirs |-> [buggy |-> NoDirectory,
                     correct |-> Directory(TRUE,
                                   [name \in EntryNames |->
                                      IF name \in moved THEN buggy.entries[name]
                                      ELSE correct.entries[name]])],
           ret |-> "true", threw |-> FALSE]

\* ------------------------------------------------------------------- inputs

\* ZcfConfig values callers write. CfgFull and CfgFull2 supply every field;
\* CfgMinimal is the default getZcfConfig returns (no optional field);
\* CfgBadTool carries an unsupported tool and language; CfgPrompt adds the
\* untyped systemPromptStyle.
CfgFull ==
  [NoLegacy EXCEPT !.version = "1.0.0", !.preferredLang = "zh-CN", !.templateLang = "en",
                   !.aiOutputLang = "zh-CN", !.outputStyles = "[nekomata-engineer]",
                   !.defaultOutputStyle = "nekomata-engineer", !.codeToolType = "codex"]

CfgFull2 ==
  [NoLegacy EXCEPT !.version = "2.0.0", !.preferredLang = "en", !.templateLang = "zh-CN",
                   !.aiOutputLang = "en", !.outputStyles = "[]",
                   !.defaultOutputStyle = "none", !.codeToolType = "claude-code"]

CfgMinimal ==
  [NoLegacy EXCEPT !.version = "1.0.0", !.preferredLang = "en",
                   !.codeToolType = DEFAULT_CODE_TOOL_TYPE]

CfgBadTool == [CfgFull EXCEPT !.codeToolType = "cursor", !.preferredLang = "fr"]

CfgPrompt == [CfgFull2 EXCEPT !.systemPromptStyle = "nekomata-engineer"]

ConfigInputs == {CfgFull, CfgFull2, CfgMinimal, CfgBadTool, CfgPrompt}

\* the partial updates callers pass to updateZcfConfig
UpdClearStyles == [NoLegacy EXCEPT !.outputStyles = "[]"]

UpdNoStyle == [NoLegacy EXCEPT !.outputStyles = "[]", !.defaultOutputStyle = "none"]

\* an update that passes a lastUpdated of its own
UpdStamped == [NoLegacy EXCEPT !.defaultOutputStyle = "nekomata-engineer", !.lastUpdated = "0"]

UpdateInputs == {UpdClearStyles, UpdNoStyle, UpdStamped}

\* the ZcfTomlConfig values callers hand to writeTomlConfig directly
TomlLocal(now) == createDefaultTomlConfig("zh-CN", "local", now)

TomlProfiles(now) ==
  [createDefaultTomlConfig("en", "global", now) EXCEPT
     !.version = "2.0.0", !.claudeCode.currentProfile = "work",
     !.claudeCode.profiles = "{work}", !.claudeCode.version = "2.1.0"]

TomlInputs(now) == {TomlLocal(now), TomlProfiles(now)}

\* the partial updates callers pass to updateTomlConfig: one that empties the
\* profiles table and passes a lastUpdated of its own, one that switches the
\* tool, sets a version and supplies aiOutputLang as undefined
UpdProfiles ==
  [NoUpdates EXCEPT !.lastUpdated = "0", !.claudeCode.profiles = "{}",
                    !.claudeCode.currentProfile = ""]

UpdSwitchTool ==
  [NoUpdates EXCEPT !.version = "2.0.0", !.general.currentTool = "codex",
                    !.general.aiOutputLang = undefined, !.claudeCode.enabled = "false",
                    !.codex.enabled = "true"]

TomlUpdateInputs == {UpdProfiles, UpdSwitchTool}

\* a config file as the store itself writes it (a local installation)
DocFresh == stringifyToml(createDefaultTomlConfig("en", "local", 0))

\* a config file its user has edited: a header comment, a trailing comment on
\* the version line, unmanaged keys and an unmanaged table
DocUser ==
  <<Comment("# ZCF configuration"), Comment("# edited by hand"), Blank,
    Line("kv", "version", "1.0.0", "# schema", "plain"), KV("lastUpdated", "0"), Blank,
    Section("general"), KV("preferredLang", "en"), KV("editor", "vim"),
    KV("currentTool", "codex"), Blank,
    Section("claudeCode"), KVLine("enabled", "true"),
    KVLine("outputStyles", "[engineer-professional]"), KV("installType", "local"),
    KV("currentProfile", "work"), KVLine("profiles", "{work}"), KV("version", "2.1.0"), Blank,
    Section("codex"), KVLine("enabled", "false"), KV("systemPromptStyle", "nekomata-engineer"),
    Blank,
    Section("custom"), KV("version", "9"), Comment("# end"), Blank>>

\* a config file with a header comment and no top-level field
DocNoTop ==
  <<Comment("# header"),
    Section("general"), KV("preferredLang", "zh-CN"), KV("currentTool", "claude-code"),
    Section("claudeCode"), KVLine("enabled", "true"), KVLine("outputStyles", "[]"),
    KV("installType", "global"),
    Section("codex"), KVLine("enabled", "false"), KV("systemPromptStyle", "engineer-professional"),
    Blank>>

\* a config file with a corrupt section marker
DocCorrupt ==
  <<Comment("# broken"), KV("version", "1.0.0"), Corrupt("general"), KV("preferredLang", "en"), Blank>>

\* an empty config file: valid TOML that holds no group
DocEmpty == <<Blank>>

\* a config file whose codex prompt style was set to the empty string
DocBlankStyle ==
  stringifyToml([createDefaultTomlConfig("en", "global", 0) EXCEPT
                   !.claudeCode.currentProfile = "work", !.codex.systemPromptStyle = ""])

NoFiles == [p \in Paths |-> Absent]

Legacy1 == LEGACY_ZCF_CONFIG_FILES[1]

Legacy2 == LEGACY_ZCF_CONFIG_FILES[2]

\* The file-system states a run of reads and writes starts from: no config
\* file, a config file the store wrote, one its user edited, one without
\* top-level fields, a corrupt one, one with an empty prompt style, and a
\* legacy JSON record that migration moved to the canonical path.
InitialStores ==
  {Store(NoFiles, FALSE),
   Store([NoFiles EXCEPT ![ZCF_CONFIG_FILE] = TomlFile(DocFresh)], TRUE),
   Store([NoFiles EXCEPT ![ZCF_CONFIG_FILE] = TomlFile(DocUser)], TRUE),
   Store([NoFiles EXCEPT ![ZCF_CONFIG_FILE] = TomlFile(DocNoTop)], TRUE),
   Store([NoFiles EXCEPT ![ZCF_CONFIG_FILE] = TomlFile(DocCorrupt)], TRUE),
   Store([NoFiles EXCEPT ![ZCF_CONFIG_FILE] = TomlFile(DocBlankStyle)], TRUE),
   Store([NoFiles EXCEPT ![ZCF_CONFIG_FILE] = JsonFile("JsonA")], TRUE)}

\* the failures injected into a migration
MigrateFaults ==
  {NoFault,
   [NoFault EXCEPT !.mkdir = TRUE],
   [NoFault EXCEPT !.rename = "EACCES"],
   [NoFault EXCEPT !.rename = "EXDEV"],
   [NoFault EXCEPT !.rename = "EXDEV", !.copy = TRUE],
   [NoFault EXCEPT !.rename = "EXDEV", !.rmFail = {Legacy1}],
   [NoFault EXCEPT !.rmFail = {Legacy2}]}

\* the failures injected into a read
ReadFaults ==
  {NoFault, [NoFault EXCEPT !.rename = "EACCES"], [NoFault EXCEPT !.readFile = TRUE],
   [NoFault EXCEPT !.rmFail = LegacyPaths]}


\* the failures injected into a writeTomlConfig
WriteFaults ==
  {NoFault,
   [NoFault EXCEPT !.ensureDir = TRUE],
   [NoFault EXCEPT !.readFile = TRUE],
   [NoFault EXCEPT !.writeEdited = TRUE],
   [NoFault EXCEPT !.writeFull = TRUE]}

\* the failures injected into a writeZcfConfig
WriteZcfFaults == {NoFault, [NoFault EXCEPT !.ensureDir = TRUE], [NoFault EXCEPT !.writeFull = TRUE]}

\* the failures injected into an update
UpdateFaults == {NoFault, [NoFault EXCEPT !.writeFull = TRUE]}

\* ------------------------------------------------------------ the state machine

VARIABLES
  store,   \* the file system: what each path holds, whether the config directory exists
  now,     \* the clock: the number of calls made so far
  last     \* the last call: its name, inputs, injected failures, outcome, and the store before it

vars == <<store, now, last>>

NoMigration == [migrated |-> FALSE, source |-> "", removed |-> << >>]

NoReturn == [null |-> TRUE, cfg |-> NoLegacy]

Call(op, F, threw, arg, toml, ret, mig, route, wrote, pre) ==
  [op |-> op, F |-> F, threw |-> threw, arg |-> arg, toml |-> toml, ret |-> ret, mig |-> mig,
   route |-> route, wrote |-> wrote, pre |-> pre]

Init ==
  /\ store \in InitialStores
  /\ now = 0
  /\ last = Call("init", NoFault, FALSE, NoLegacy, NullToml.cfg, NoReturn, NoMigration, "none",
                 FALSE, store)

\* migrateZcfConfigIfNeeded() under the failures F
MigrateCall(F) ==
  LET m == migrateZcfConfigIfNeeded(store, F)
  IN /\ now < MaxClock
     /\ store' = m.store
     /\ now' = now + 1
     /\ last' = Call("migrate", F, m.threw, NoLegacy, NullToml.cfg, NoReturn,
                     [migrated |-> m.migrated, source |-> m.source, removed |-> m.removed],
                     "none", FALSE, store)

\* readZcfConfig() or readZcfConfigAsync() under the failures F
ReadCall(F) ==
  LET r == readZcfConfig(store, F, now + 1)
  IN /\ now < MaxClock
     /\ store' = r.store
     /\ now' = now + 1
     /\ last' = Call("read", F, r.threw, NoLegacy, NullToml.cfg, [null |-> r.null, cfg |-> r.cfg],
                     NoMigration, "none", FALSE, store)

\* getZcfConfig() or getZcfConfigAsync() under the failures F
GetCall(F) ==
  LET r == getZcfConfig(store, F, now + 1)
  IN /\ now < MaxClock
     /\ store' = r.store
     /\ now' = now + 1
     /\ last' = Call("get", F, r.threw, NoLegacy, NullToml.cfg, [null |-> r.null, cfg |-> r.cfg],
                     NoMigration, "none", FALSE, store)

\* a call of readZcfConfig() between writes
Read == ReadCall(NoFault)

\* a call of writeZcfConfig(config) or saveZcfConfig(config)
Write ==
  \E c \in ConfigInputs, F \in WriteZcfFaults :
    LET config == [c EXCEPT !.lastUpdated = Iso(now + 1)]
        w == writeZcfConfig(store, config, F, now + 1)
    IN /\ now < MaxClock
       /\ F = NoFault \/ c = CfgFull
       /\ store' = w.store
       /\ now' = now + 1
       /\ last' = Call("write", F, w.threw, config, w.toml, NoReturn, NoMigration, w.route,
                       w.wrote, store)

\* a call of writeTomlConfig(ZCF_CONFIG_FILE, config)
WriteToml ==
  \E F \in WriteFaults :
    \E config \in TomlInputs(now + 1) :
      LET w == writeTomlConfig(store, config, F)
      IN /\ now < MaxClock
         /\ F = NoFault \/ config = TomlLocal(now + 1)
         /\ store' = w.store
         /\ now' = now + 1
         /\ last' = Call("writeToml", F, w.threw, NoLegacy, w.toml, NoReturn, NoMigration,
                         w.route, w.wrote, store)

\* a call of updateZcfConfig(updates)
Update ==
  \E u \in UpdateInputs, F \in UpdateFaults :
    LET w == updateZcfConfig(store, u, F, now + 1)
    IN /\ now < MaxClock
       /\ F = NoFault \/ u = UpdClearStyles
       /\ store' = w.store
       /\ now' = now + 1
       /\ last' = Call("update", F, w.threw, u, w.toml, NoReturn, NoMigration, w.route,
                       w.wrote, store)

\* a call of updateTomlConfig(ZCF_CONFIG_FILE, updates)
UpdateToml ==
  \E updates \in TomlUpdateInputs, F \in UpdateFaults :
    LET w == updateTomlConfig(store, updates, F, now + 1)
    IN /\ now < MaxClock
       /\ F = NoFault \/ updates = UpdProfiles
       /\ store' = w.store
       /\ now' = now + 1
       /\ last' = Call("updateToml", F, w.threw, updates, w.toml, NoReturn, NoMigration,
                       w.route, w.wrote, store)

Next == Read \/ Write \/ WriteToml \/ Update \/ UpdateToml

\* the store under reads, writes and updates
Spec == Init /\ [][Next]_vars

\* ------------------------------------------------- the migration state machine

\* what the canonical path holds when a migration starts
TargetStates == {Absent, TomlFile(DocUser), TomlFile(DocEmpty), TomlFile(DocCorrupt)}

\* The file-system states a migration starts from: every combination of the
\* canonical file, the JSON file beside it and the two legacy candidates; the
\* config directory exists when a file lies in it, and may be missing
\* otherwise.
MigrationStores ==
  {Store([NoFiles EXCEPT ![ZCF_CONFIG_FILE] = t, ![ZCF_CONFIG_JSON] = j, ![Legacy1] = a,
                         ![Legacy2] = b], d) :
     t \in TargetStates, j \in {Absent, JsonFile("JsonB")}, a \in {Absent, JsonFile("JsonA")},
     b \in {Absent, JsonFile("JsonB"), TomlFile(DocEmpty)}, d \in BOOLEAN}

InitMigration ==
  /\ store \in MigrationStores
  /\ (exists(store.files[ZCF_CONFIG_FILE]) \/ exists(store.files[ZCF_CONFIG_JSON])) => store.dir
  /\ now = 0
  /\ last = Call("init", NoFault, FALSE, NoLegacy, NullToml.cfg, NoReturn, NoMigration, "none",
                 FALSE, store)

\* a call of migrateZcfConfigIfNeeded()
Migrate == \E F \in MigrateFaults : MigrateCall(F)

\* a call of readZcfConfig() or readZcfConfigAsync()
ReadMigrating == \E F \in ReadFaults : ReadCall(F)

\* a call of getZcfConfig() or getZcfConfigAsync()
GetConfig == \E F \in ReadFaults : GetCall(F)

\* a call of updateZcfConfig(updates) on a store that may hold legacy files
UpdateMigrating ==
  \E F \in ReadFaults :
    LET w == updateZcfConfig(store, UpdNoStyle, F, now + 1)
    IN /\ now < MaxClock
       /\ store' = w.store
       /\ now' = now + 1
       /\ last' = Call("update", F, w.threw, UpdNoStyle, w.toml, NoReturn, NoMigration, w.route,
                       w.wrote, store)

NextMigration == Migrate \/ ReadMigrating \/ GetConfig \/ UpdateMigrating

\* the store under migrations and reads
SpecMigration == InitMigration /\ [][NextMigration]_vars

\* ------------------------------------------ the output-style state machine

\* the settings files configureOutputStyle finds: none, one with an
\* outputStyle and a key of the user's, one with the user's key only
SettingsStates ==
  {[exists |-> FALSE, outputStyle |-> undefined, model |-> undefined, env |-> undefined],
   [exists |-> TRUE, outputStyle |-> "nekomata-engineer", model |-> "opus", env |-> "{}"],
   [exists |-> TRUE, outputStyle |-> undefined, model |-> "opus", env |-> undefined]}

\* the arguments and prompt answers of one configureOutputStyle
Answers(preselectedStyles, preselectedDefault, promptedStyles, promptedDefault, cleanupLegacy) ==
  [preselectedStyles |-> preselectedStyles, preselectedDefault |-> preselectedDefault,
   promptedStyles |-> promptedStyles, promptedDefault |-> promptedDefault,
   cleanupLegacy |-> cleanupLegacy]

\* Non-interactive calls; interactive calls in which the user ticks no style
\* or one, then cancels the default prompt or picks one of its choices
\* ("__none__" and the built-in styles when nothing is ticked, the ticked and
\* the built-in styles otherwise), with either answer to the cleanup
\* question; a call with preselected styles and no default, which prompts.
StyleAnswers ==
  {Answers("[engineer-professional]", "engineer-professional", undefined, undefined, FALSE),
   Answers("[]", "default", undefined, undefined, FALSE),
   Answers("[]", undefined, undefined, undefined, FALSE),
   Answers(undefined, undefined, undefined, undefined, TRUE),
   Answers(undefined, undefined, "[]", undefined, FALSE),
   Answers(undefined, undefined, "[]", "__none__", TRUE),
   Answers(undefined, undefined, "[]", "__none__", FALSE),
   Answers(undefined, undefined, "[]", "default", FALSE),
   Answers(undefined, undefined, "[nekomata-engineer]", undefined, TRUE),
   Answers(undefined, undefined, "[nekomata-engineer]", undefined, FALSE),
   Answers(undefined, undefined, "[nekomata-engineer]", "nekomata-engineer", FALSE),
   Answers(undefined, undefined, "[nekomata-engineer]", "default", TRUE)}

InitStyle ==
  /\ store \in {StyleStore([NoFiles EXCEPT ![ZCF_CONFIG_FILE] = t], TRUE, settings,
                            [dir |-> FALSE, files |-> {}], legacy) :
                   t \in {Absent, TomlFile(DocFresh), TomlFile(DocEmpty)},
                   settings \in SettingsStates, legacy \in BOOLEAN}
  /\ now = 0
  /\ last = Call("init", NoFault, FALSE, NoLegacy, NullToml.cfg, NoReturn, NoMigration, "none",
                 FALSE, store)

\* a call of configureOutputStyle; its outcome and default style are in
\* last.ret
Configure ==
  \E a \in StyleAnswers, F \in UpdateFaults :
    /\ now < MaxClock
    /\ F = NoFault \/ a.promptedDefault = "nekomata-engineer"
    /\ \E c \in {configureOutputStyle(store, a, F, now + 1)} :
       /\ store' = c.store
       /\ now' = now + 1
       /\ last' = Call("configure", F, c.threw, a, c.toml,
                       [outcome |-> c.outcome, style |-> c.style], NoMigration, c.route,
                       c.wrote, store)

NextStyle == Configure

\* the settings file, the ZCF config and the output-styles directory under
\* calls of configureOutputStyle
SpecStyle == InitStyle /\ [][NextStyle]_vars

\* ---------------------------------------- the settings-file state machine

\* the keys of ClaudeSettings the model follows beside outputStyle
OtherSettingsKeys == {"model", "env"}

\* readJsonConfig<ClaudeSettings>(SETTINGS_FILE) || {}: no settings file, or
\* one with any of the keys outputStyle, model and env
SettingsFiles ==
  {[exists |-> FALSE, outputStyle |-> undefined, model |-> undefined, env |-> undefined]}
    \cup [exists : {TRUE}, outputStyle : {undefined, "default", "nekomata-engineer"},
          model : {undefined, "opus"}, env : {undefined, "{}"}]

\* the style ids setGlobalDefaultOutputStyle is called with
StyleChoices == {"default", "engineer-professional", "nekomata-engineer"}

InitSettings ==
  /\ store \in {StyleStore(NoFiles, TRUE, settings, [dir |-> FALSE, files |-> {}], FALSE) :
                   settings \in SettingsFiles}
  /\ now = 0
  /\ last = Call("init", NoFault, FALSE, NoLegacy, NullToml.cfg, NoReturn, NoMigration, "none",
                 FALSE, store)

\* a call of setGlobalDefaultOutputStyle(styleId)
SetStyle ==
  \E styleId \in StyleChoices :
    /\ now < MaxClock
    /\ store' = [store EXCEPT !.settings = setGlobalDefaultOutputStyle(store.settings, styleId)]
    /\ now' = now + 1
    /\ last' = Call("setStyle", NoFault, FALSE, styleId, NullToml.cfg, NoReturn, NoMigration,
                    "none", TRUE, store)

\* a call of clearGlobalOutputStyle()
ClearStyle ==
  /\ now < MaxClock
  /\ store' = [store EXCEPT !.settings = clearGlobalOutputStyle(store.settings)]
  /\ now' = now + 1
  /\ last' = Call("clearStyle", NoFault, FALSE, undefined, NullToml.cfg, NoReturn, NoMigration,
                  "none", TRUE, store)

NextSettings == SetStyle \/ ClearStyle

\* the settings file under calls of setGlobalDefaultOutputStyle and
\* clearGlobalOutputStyle
SpecSettings == InitSettings /\ [][NextSettings]_vars

\* ------------------------------------------- the .gitignore state machine

\* the lines a .gitignore starts with: other entries, an empty line, legacy
\* entries in the forms the filter names and in one it does not, V6 entries
GitignoreLines ==
  {"node_modules", "", ".bmad-core", " .bmad-method/\r", "/{output_folder}",
   ".claude/commands/BMad", "/.bmad-core/", "_bmad", "_bmad-output/"}

\* the .gitignore files: none, and every text of one to three lines
GitignoreFiles ==
  {Gitignore(FALSE, "")}
    \cup {Gitignore(TRUE, JoinLines(lines)) :
            lines \in UNION {[1..n -> GitignoreLines] : n \in 1..3}}

InitGitignore ==
  /\ store \in {[gitignore |-> file] : file \in GitignoreFiles}
  /\ now = 0
  /\ last = Call("init", NoFault, FALSE, NoLegacy, NullToml.cfg, NoReturn, NoMigration, "none",
                 FALSE, store)

\* a run of updateGitignore; last.ret tells whether it runs on the output of
\* a run that returned, and the file the first of the two runs started from
UpdateGitignore ==
  \E writeFails \in BOOLEAN :
    /\ now < MaxClock
    /\ \E u \in {updateGitignore(store.gitignore, writeFails)} :
       /\ store' = [gitignore |-> u.file]
       /\ now' = now + 1
       /\ last' = Call("updateGitignore", NoFault, u.threw, writeFails, NullToml.cfg,
                       [rerun |-> last.op = "updateGitignore" /\ ~last.threw,
                        original |-> IF last.op = "updateGitignore" /\ ~last.threw
                                     THEN last.pre.gitignore ELSE store.gitignore],
                       NoMigration, "none", u.wrote, store)

NextGitignore == UpdateGitignore

\* the .gitignore of a project under runs of updateGitignore
SpecGitignore == InitGitignore /\ [][NextGitignore]_vars

\* -------------------------------------- the {output_folder} state machine

\* a directory that does not exist, and every directory over EntryNames
Directories ==
  {NoDirectory}
    \cup {Directory(TRUE, entries) : entries \in [EntryNames -> EntryContents \cup {Missing}]}

InitOutputFolder ==
  /\ store \in [buggy : Directories, correct : Directories]
  /\ now = 0
  /\ last = Call("init", NoFault, FALSE, NoLegacy, NullToml.cfg, NoReturn, NoMigration, "none",
                 FALSE, store)

\* a run of fixOutputFolderBug; what it returned is in last.ret
FixOutputFolder ==
  \E renameFails \in BOOLEAN :
    /\ now < MaxClock
    /\ \E f \in {fixOutputFolderBug(store, renameFails)} :
       /\ store' = f.dirs
       /\ now' = now + 1
       /\ last' = Call("fixOutputFolder", NoFault, f.threw, renameFails, NullToml.cfg, f.ret,
                       NoMigration, "none", f.dirs # store, store)

NextOutputFolder == FixOutputFolder

\* {output_folder} and _bmad-output under runs of fixOutputFolderBug
SpecOutputFolder == InitOutputFolder /\ [][NextOutputFolder]_vars

\* ----------------------------------------------- the patcher state machine

\* the lines a document may have above its top-level fields
PatchHeads ==
  {<< >>, <<Comment("# ZCF configuration")>>, <<Comment("# ZCF configuration"), Blank>>}

\* the key lines of the top-level span: no field, version alone (quoted,
\* with a trailing comment, unquoted, indented), lastUpdated alone, both in
\* either order, and a key of the user's before or instead of them
PatchFields ==
  {<< >>,
   <<KV("version", "1.0.0")>>,
   <<Line("kv", "version", "1.0.0", "# schema", "plain")>>,
   <<Line("kv", "version", "1", "", "bare")>>,
   <<Line("kv", "version", "1.0.0", "", "indented")>>,
   <<KV("lastUpdated", "0")>>,
   <<KV("version", "1.0.0"), Line("kv", "lastUpdated", "0", "# stamp", "plain")>>,
   <<KV("lastUpdated", "0"), KV("version", "1.0.0")>>,
   <<KV("theme", "dark")>>,
   <<KV("theme", "dark"), Comment("# schema version"), KV("version", "1.0.0")>>}

\* what ends the top-level span: nothing, or an empty line
PatchTails == {<< >>, <<Blank>>}

\* what follows the top-level span: nothing, a table and the final newline, a
\* table whose last line has no newline, a table whose header line is
\* indented
PatchRests ==
  {<< >>,
   <<Section("general"), KV("version", "9"), Blank>>,
   <<Section("codex"), KV("lastUpdated", "never")>>,
   <<Line("section", "custom", "", "", "indented"), KV("version", "9"), Blank>>}

\* the documents handed to the patcher; the empty text is <<Blank>>
PatchDocs ==
  {IF h \o f \o t \o r = << >> THEN <<Blank>> ELSE h \o f \o t \o r :
     h \in PatchHeads, f \in PatchFields, t \in PatchTails, r \in PatchRests}

\* the versions configs carry
PatchVersions == {"1.0.0", "2.0.0"}

InitPatch ==
  /\ store \in {Store([NoFiles EXCEPT ![ZCF_CONFIG_FILE] = TomlFile(d)], TRUE) : d \in PatchDocs}
  /\ now = 0
  /\ last = Call("init", NoFault, FALSE, NoLegacy, NullToml.cfg, NoReturn, NoMigration, "none",
                 FALSE, store)

\* updateTopLevelTomlFields(content, version, lastUpdated) on the text of the
\* config file, the result put in its place
Patch ==
  \E version \in PatchVersions :
    LET content == readFile(store.files[ZCF_CONFIG_FILE])
        lastUpdated == Iso(now + 1)
        updatedContent == updateTopLevelTomlFields(content, version, lastUpdated)
    IN /\ now < MaxClock
       /\ store' = Store([store.files EXCEPT ![ZCF_CONFIG_FILE] = TomlFile(updatedContent)], TRUE)
       /\ now' = now + 1
       /\ last' = Call("patch", NoFault, FALSE,
                       [NoLegacy EXCEPT !.version = version, !.lastUpdated = lastUpdated],
                       NullToml.cfg, NoReturn, NoMigration, "none", TRUE, store)

NextPatch == Patch

\* the config document under repeated top-level patches
SpecPatch == InitPatch /\ [][NextPatch]_vars

\* --------------------------------------------- the converter state machine

\* The legacy flat records handed to migrateFromJsonConfig (its parameter is
\* typed any): each enum-like field absent, empty, valid or unknown; the
\* styles absent, empty or set; the install type absent, empty or set.
LegacyRecords ==
  {[NoLegacy EXCEPT !.preferredLang = l, !.codeToolType = t, !.outputStyles = o,
                    !.defaultOutputStyle = d, !.installType = i] :
     l \in {undefined, "", "zh-CN", "fr"},
     t \in {undefined, "", "claude-code", "codex", "cursor"},
     o \in {undefined, "[]", "[nekomata-engineer]"},
     d \in {undefined, "", "nekomata-engineer"},
     i \in {undefined, "", "local"}}

InitConvert ==
  /\ store = Store(NoFiles, FALSE)
  /\ now = 0
  /\ last = Call("init", NoFault, FALSE, NoLegacy, NullToml.cfg, NoReturn, NoMigration, "none",
                 FALSE, store)

\* migrateFromJsonConfig(jsonConfig): the record in last.arg, the result in
\* last.toml
Convert ==
  \E jsonConfig \in LegacyRecords :
    /\ now < MaxClock
    /\ store' = store
    /\ now' = now + 1
    /\ last' = Call("convert", NoFault, FALSE, jsonConfig,
                    migrateFromJsonConfig(jsonConfig, now + 1), NoReturn, NoMigration, "none",
                    FALSE, store)

\* the languages and install-location kinds createDefaultTomlConfig is asked
\* for: the two supported languages the code tells apart and an unsupported one
RequestedLangs == {"en", "zh-CN", "fr"}

InstallKinds == {"global", "local"}

\* createDefaultTomlConfig(preferredLang, claudeCodeInstallType): the request
\* in last.arg, the result in last.toml
Default ==
  \E preferredLang \in RequestedLangs, claudeCodeInstallType \in InstallKinds :
    /\ now < MaxClock
    /\ store' = store
    /\ now' = now + 1
    /\ last' = Call("default", NoFault, FALSE,
                    [NoLegacy EXCEPT !.preferredLang = preferredLang,
                                     !.installType = claudeCodeInstallType],
                    createDefaultTomlConfig(preferredLang, claudeCodeInstallType, now + 1),
                    NoReturn, NoMigration, "none", FALSE, store)

NextConvert == Convert \/ Default

\* the converter applied to one legacy record after another
SpecConvert == InitConvert /\ [][NextConvert]_vars

TypeOK ==
  /\ now \in 0..MaxClock
  /\ last.op \in {"init", "migrate", "read", "get", "write", "writeToml", "update", "updateToml", "patch", "convert", "configure",
                 "default", "setStyle", "clearStyle", "updateGitignore",
                 "fixOutputFolder"}
  /\ store.dir \in BOOLEAN
  /\ \A p \in Paths : store.files[p].exists \in BOOLEAN

\* ---------------------------------------------------------------- the claims

\* the canonical config file of a store
Target(st) == st.files[ZCF_CONFIG_FILE]

\* the file holds a config: valid TOML with the three groups
HoldsConfig(file) ==
  /\ file.exists
  /\ WellFormed(file.text)
  /\ ManagedSections \subseteq Sections(file.text)

\* readZcfConfig() on the current store, no failure injected
ReadBack == readZcfConfig(store, NoFault, now)

\* r returned a config equal to c in every field the writer accepts
ReturnsAccepted(r, c) == ~r.threw /\ ~r.null /\ \A f \in AcceptedFields : r.cfg[f] = c[f]

\* c supplies every field the writer accepts, and a supported tool
SuppliesAll(c) ==
  /\ \A f \in AcceptedFields \ {"defaultOutputStyle"} : ~Falsy(c[f])
  /\ c.defaultOutputStyle # undefined
  /\ isCodeToolType(c.codeToolType)

\* C1: as the spec states it, after any writeZcfConfig(c) that succeeded on an
\* absent file or on a file that held a config, readZcfConfig() returns c in
\* every accepted field.
C1_RoundTripAnyConfig ==
  (last.op = "write" /\ last.wrote /\ (~exists(Target(last.pre)) \/ HoldsConfig(Target(last.pre))))
    => ReturnsAccepted(ReadBack, last.arg)

\* the canonical file is absent or holds a config
AbsentOrConfig(file) == ~exists(file) \/ HoldsConfig(file)

\* C1: amended, after a writeZcfConfig(c) that succeeded on an absent file or
\* on a file that held a config, readZcfConfig() returns c in every accepted
\* field (lastUpdated aside) when c supplies all of them and a supported tool.
C1_RoundTrip ==
  (last.op = "write" /\ last.wrote /\ AbsentOrConfig(Target(last.pre)) /\ SuppliesAll(last.arg))
    => ReturnsAccepted(ReadBack, last.arg)

\* a full config was written over a file that held another config, by
\* incremental edit
C1_Witness ==
  /\ last.op = "write" /\ last.wrote /\ SuppliesAll(last.arg)
  /\ HoldsConfig(Target(last.pre))
  /\ last.route = "edited"
  /\ parseToml(Target(last.pre).text).version # last.arg.version

\* C2: updateZcfConfig({outputStyles: []}) on an existing persisted config
\* changes only claudeCode.outputStyles and lastUpdated: version, every general
\* field, every codex field and every other claudeCode field keep their value.
C2_UpdateChangesOnlyStyles ==
  (last.op = "update" /\ last.arg = UpdClearStyles /\ last.wrote /\ HoldsConfig(Target(last.pre)))
    => LET before == parseToml(Target(last.pre).text)
           after == parseToml(Target(store).text)
       IN /\ HoldsConfig(Target(store))
          /\ after.claudeCode.outputStyles = "[]"
          /\ after.version = before.version
          /\ after.general = before.general
          /\ after.codex = before.codex
          /\ \A k \in Range(ClaudeCodeKeys) \ {"outputStyles"} :
               after.claudeCode[k] = before.claudeCode[k]

\* the injected deletion failures hit no file of the store st
DeletionsSucceed(st, F) == \A p \in F.rmFail : ~exists(st.files[p])

NoLegacyLeft(st) == \A p \in LegacyPaths : ~exists(st.files[p])

\* C3: migration is idempotent. After a call that returned with every deletion
\* succeeding no legacy candidate exists, and a second call, whatever failures
\* the file system has ready, changes nothing and reports no migration.
C3_MigrateIdempotent ==
  (last.op = "migrate" /\ ~last.threw /\ DeletionsSucceed(last.pre, last.F))
    => /\ NoLegacyLeft(store)
       /\ \A F \in MigrateFaults :
            LET again == migrateZcfConfigIfNeeded(store, F)
            IN ~again.threw /\ again.store = store /\ ~again.migrated /\ again.removed = << >>

\* a migration that moved one legacy file and removed another has returned
C3_Witness ==
  /\ last.op = "migrate" /\ ~last.threw /\ last.mig.migrated
  /\ last.mig.removed # << >>
  /\ DeletionsSucceed(last.pre, last.F)

\* C4: migrateZcfConfigIfNeeded never throws, whatever operation fails.
C4_MigrateNeverThrows == last.op = "migrate" => ~last.threw

\* no path of the store holds a file
NothingPersisted(st) == \A p \in Paths : ~exists(st.files[p])

\* C5: getZcfConfig never fails, in any file-system state and under any
\* file-system failure; it returns a config, the default one when nothing is
\* persisted.
C5_GetNeverFails ==
  last.op = "get"
    => /\ ~last.threw
       /\ ~last.ret.null
       /\ NothingPersisted(last.pre)
            => \A f \in AcceptedFields : last.ret.cfg[f] = DefaultZcfConfig(now)[f]

\* C6: writeZcfConfig and writeTomlConfig never raise to the caller, whatever
\* fails during the write.
C6_WriteNeverThrows == last.op \in {"write", "writeToml"} => ~last.threw

\* a write met a failure, persisted nothing and returned
C6_Witness ==
  /\ last.op \in {"write", "writeToml"}
  /\ last.F # NoFault /\ ~last.wrote /\ ~last.threw
  /\ store = last.pre \/ store = Store(last.pre.files, TRUE)

\* C7: when the canonical file exists, migration moves no data: it returns
\* migrated=false, the canonical file is unchanged, every legacy candidate whose
\* deletion did not fail is gone, and a following readZcfConfig returns the
\* config the canonical file holds and leaves the file as it is.
C7_CanonicalWins ==
  (last.op = "migrate" /\ exists(Target(last.pre)))
    => /\ ~last.threw
       /\ ~last.mig.migrated
       /\ Target(store) = Target(last.pre)
       /\ \A p \in LegacyPaths : p \notin last.F.rmFail => ~exists(store.files[p])
       /\ HoldsConfig(Target(last.pre))
            => /\ ~ReadBack.threw /\ ~ReadBack.null
               /\ ReadBack.cfg = convertTomlToLegacyConfig(parseToml(Target(last.pre).text))
               /\ ReadBack.cfg.preferredLang = Get(Target(last.pre).text, "general", "preferredLang")
               /\ Target(ReadBack.store) = Target(last.pre)

\* a migration ran with the canonical file and both legacy candidates present
C7_Witness ==
  /\ last.op = "migrate" /\ HoldsConfig(Target(last.pre))
  /\ \A p \in LegacyPaths : exists(last.pre.files[p])
  /\ NoLegacyLeft(store)
  /\ last.mig.removed = LEGACY_ZCF_CONFIG_FILES

\* the first legacy candidate, in priority-list order, that exists in st
FirstCandidate(st) ==
  LEGACY_ZCF_CONFIG_FILES[Min({i \in 1..Len(LEGACY_ZCF_CONFIG_FILES) :
                                 exists(st.files[LEGACY_ZCF_CONFIG_FILES[i]])})]

\* C8: when the canonical file is absent and a legacy candidate exists, a
\* migration that returns leaves the canonical file with exactly the content
\* of the first existing candidate in priority order; that candidate is gone,
\* and so is every other candidate whose deletion did not fail.
C8_FirstLegacyBecomesCanonical ==
  (last.op = "migrate" /\ ~last.threw /\ ~exists(Target(last.pre)) /\ ~NoLegacyLeft(last.pre))
    => /\ last.mig.migrated
       /\ last.mig.source = FirstCandidate(last.pre)
       /\ Target(store) = last.pre.files[FirstCandidate(last.pre)]
       /\ ~exists(store.files[FirstCandidate(last.pre)])
       /\ \A p \in LegacyPaths : p \notin last.F.rmFail => ~exists(store.files[p])

\* two legacy candidates that disagree existed, the first was moved
C8_Witness ==
  /\ last.op = "migrate" /\ ~last.threw /\ ~exists(Target(last.pre))
  /\ exists(last.pre.files[Legacy1]) /\ exists(last.pre.files[Legacy2])
  /\ last.pre.files[Legacy1] # last.pre.files[Legacy2]
  /\ Target(store) = last.pre.files[Legacy1]
  /\ NoLegacyLeft(store)

\* the run of comment and blank lines a document starts with
LeadingBlock(doc) ==
  SubSeq(doc, 1, Min({i \in 1..(Len(doc) + 1) :
                        i = Len(doc) + 1 \/ doc[i].k \notin {"blank", "comment"}}) - 1)

\* the section headers the writer does not manage
UnmanagedSection(sec) == sec \notin ManagedSections \cup {""}

\* the lines of a document the writer does not manage, each with the section it
\* lies in: comments, the keys that are not the writer's, unmanaged tables
UnmanagedLines(doc) ==
  LET at == [i \in 1..Len(doc) |-> <<SectionOf(doc, i), doc[i]>>]
      Kept(x) ==
        \/ x[2].k = "comment"
        \/ x[2].k = "section" /\ UnmanagedSection(x[2].key)
        \/ x[2].k = "kv" /\ UnmanagedSection(x[1])
        \/ x[2].k = "kv" /\ x[1] \in ManagedSections /\ x[2].key \notin ManagedKeys(x[1])
        \/ x[2].k = "kv" /\ x[1] = "" /\ x[2].key \notin {"version", "lastUpdated"}
  IN SelectSeq(at, Kept)

\* a write call rewrote the existing config file through the incremental editor
EditedInPlace == last.op \in {"write", "writeToml", "update"} /\ last.route = "edited" /\ last.wrote

FullyEdited(doc, config) ==
  /\ Get(doc, "", "version") = config.version
  /\ Get(doc, "", "lastUpdated") = config.lastUpdated
  /\ \A i \in 1..Len(BuildEdits(config)) :
       Get(doc, BuildEdits(config)[i][1], BuildEdits(config)[i][2]) = BuildEdits(config)[i][3]

\* C10: when the incremental path fails on an existing file, the file left on
\* disk is the full serialization of the intended config and parses back to
\* that whole config (or, when that write fails too, the file is untouched);
\* no write call ever leaves a partly edited file: the file is the one before
\* the call, the full serialization, or a document carrying every edit and
\* both top-level fields.
C10_FallbackFull ==
  last.op \in {"write", "writeToml", "update"}
    => /\ (last.route = "fallback" /\ last.wrote)
            => /\ Target(store) = TomlFile(stringifyToml(last.toml))
               /\ WellFormed(Target(store).text)
               /\ parseToml(Target(store).text) = last.toml
       /\ (last.route = "fallback" /\ ~last.wrote) => Target(store) = Target(last.pre)
       /\ \/ Target(store) = Target(last.pre)
          \/ Target(store) = TomlFile(stringifyToml(last.toml))
          \/ /\ last.route = "edited"
             /\ Target(store).exists
             /\ FullyEdited(Target(store).text, last.toml)

\* the editor failed on a corrupt document and the full serialization replaced it
C10_Witness ==
  /\ last.op \in {"write", "writeToml", "update"}
  /\ last.route = "fallback" /\ last.wrote
  /\ Target(last.pre) = TomlFile(DocCorrupt)
  /\ parseToml(Target(store).text) = last.toml

\* the out-of-band fields of the claudeCode table
OutOfBandKeys == {"profiles", "currentProfile", "version"}

\* a writeZcfConfig(c) ran over a document that parses
WroteOverDocument ==
  last.op = "write" /\ exists(Target(last.pre)) /\ WellFormed(Target(last.pre).text)

\* C11: as the spec states it, after writeZcfConfig(c) over a document on
\* disk every out-of-band field the document held (claudeCode.profiles,
\* claudeCode.currentProfile, claudeCode.version, codex.systemPromptStyle) has
\* the value it had before, and a systemPromptStyle the caller supplies wins.
C11_CarriesForwardAnyValue ==
  WroteOverDocument
    => LET before == parseToml(Target(last.pre).text)
           after == parseToml(Target(store).text)
       IN /\ \A k \in OutOfBandKeys :
               before.claudeCode[k] # undefined => after.claudeCode[k] = before.claudeCode[k]
          /\ (last.arg.systemPromptStyle = undefined /\ before.codex.systemPromptStyle # undefined)
               => after.codex.systemPromptStyle = before.codex.systemPromptStyle
          /\ (last.arg.systemPromptStyle # undefined /\ last.wrote)
               => after.codex.systemPromptStyle = last.arg.systemPromptStyle

\* C11: amended, the same for the out-of-band fields whose value on disk is
\* not empty (currentProfile: any value, the empty one too); a non-empty
\* systemPromptStyle the caller supplies wins.
C11_CarriesForward ==
  WroteOverDocument
    => LET before == parseToml(Target(last.pre).text)
           after == parseToml(Target(store).text)
       IN /\ \A k \in {"profiles", "version"} :
               ~Falsy(before.claudeCode[k]) => after.claudeCode[k] = before.claudeCode[k]
          /\ before.claudeCode.currentProfile # undefined
               => after.claudeCode.currentProfile = before.claudeCode.currentProfile
          /\ (Falsy(last.arg.systemPromptStyle) /\ ~Falsy(before.codex.systemPromptStyle))
               => after.codex.systemPromptStyle = before.codex.systemPromptStyle
          /\ (~Falsy(last.arg.systemPromptStyle) /\ last.wrote)
               => after.codex.systemPromptStyle = last.arg.systemPromptStyle

\* a config without out-of-band fields was written over the user's document,
\* which keeps its profile table, active profile, tool version and prompt style
C11_Witness ==
  /\ WroteOverDocument /\ last.wrote
  /\ Target(last.pre).text = DocUser
  /\ last.arg.systemPromptStyle = undefined
  /\ Get(Target(store).text, "general", "currentTool") # Get(DocUser, "general", "currentTool")
  /\ Get(Target(store).text, "claudeCode", "profiles") = "{work}"
  /\ Get(Target(store).text, "claudeCode", "version") = "2.1.0"
  /\ Get(Target(store).text, "codex", "systemPromptStyle") = "nekomata-engineer"

\* the store a read call saw after its migration step
AfterMigration == migrateZcfConfigIfNeeded(last.pre, last.F)

\* the structured config file of the call was absent, unreadable or unparseable
NoStructuredConfig ==
  LET file == Target(AfterMigration.store)
  IN ~exists(file) \/ last.F.readFile \/ ~WellFormed(file.text)

\* the paths of the flat-JSON fallback, in the order of the claim
FallbackOrder == <<ZCF_CONFIG_JSON>> \o LEGACY_ZCF_CONFIG_FILES

\* the places of FallbackOrder that hold a JSON record in the store st
HoldRecord(st) ==
  {i \in 1..Len(FallbackOrder) : ~readJsonConfig(st.files[FallbackOrder[i]]).null}

\* C12: a readZcfConfig whose migration step returned and whose structured
\* config file is absent or unparseable does not throw; it returns the
\* normalized record of the first path that holds one, among the canonical
\* path with extension .json and then the legacy paths in list order, and null
\* when no path holds one.
C12_FallbackOrder ==
  (last.op = "read" /\ ~AfterMigration.threw /\ NoStructuredConfig)
    => LET st == AfterMigration.store
       IN /\ ~last.threw
          /\ HoldRecord(st) = {} => last.ret.null
          /\ HoldRecord(st) # {}
               => /\ ~last.ret.null
                  /\ last.ret.cfg =
                       normalizeZcfConfig(
                         readJsonConfig(st.files[FallbackOrder[Min(HoldRecord(st))]]).cfg, now)

\* a read met a corrupt config file and two legacy records that disagree, and
\* returned the first one
C12_Witness ==
  /\ last.op = "read" /\ ~last.threw /\ ~last.ret.null
  /\ Target(AfterMigration.store) = TomlFile(DocCorrupt)
  /\ HoldRecord(AfterMigration.store) = {2, 3}
  /\ last.ret.cfg.preferredLang = JsonA.preferredLang
  /\ JsonA.preferredLang # JsonB.preferredLang

\* the document handed to the last patch, and the document it returned
PatchIn == Target(last.pre).text

PatchOut == Target(store).text

\* the index of the first line that begins a section, past the end when the
\* document has none
FirstSection(doc) ==
  IF SectionStarts(doc) = {} THEN Len(doc) + 1 ELSE Min(SectionStarts(doc))

\* the lines of the top-level span that set the key name, however written
TopFields(doc, name) ==
  {i \in 1..(FirstSection(doc) - 1) : doc[i].k = "kv" /\ doc[i].key = name}

\* C13: when the top-level span holds neither a version nor a lastUpdated
\* field, the patched document has one version line and one lastUpdated line
\* above its first section line, they carry the new values, and the version
\* line is strictly above the lastUpdated line.
C13_VersionBeforeLastUpdated ==
  (last.op = "patch" /\ TopFields(PatchIn, "version") = {} /\ TopFields(PatchIn, "lastUpdated") = {})
    => \E v \in TopFields(PatchOut, "version"), u \in TopFields(PatchOut, "lastUpdated") :
         /\ TopFields(PatchOut, "version") = {v}
         /\ TopFields(PatchOut, "lastUpdated") = {u}
         /\ v < u
         /\ PatchOut[v] = KV("version", last.arg.version)
         /\ PatchOut[u] = KV("lastUpdated", last.arg.lastUpdated)

\* a document with a header comment, a key of the user's and a table, and
\* neither field, was patched
C13_Witness ==
  /\ last.op = "patch"
  /\ TopFields(PatchIn, "version") = {} /\ TopFields(PatchIn, "lastUpdated") = {}
  /\ PatchIn[1].k = "comment"
  /\ TopFields(PatchIn, "theme") # {}
  /\ SectionStarts(PatchIn) # {}
  /\ Len(PatchOut) = Len(PatchIn) + 2

\* the lines of the top-level span the field pattern matches for the key name
TopMatches(doc, name) == {i \in TopFields(doc, name) : MatchesField(doc[i], name)}

\* C14: when the pattern finds no version field in the top-level span, the
\* patched document starts with the input's leading run of comment and blank
\* lines, unchanged, and the new version line follows it with nothing but
\* empty lines in between, so above every other line of the span; when the
\* pattern finds no lastUpdated field, the new lastUpdated line is the line
\* right after the version line.
C14_InsertionPlaces ==
  last.op = "patch"
    => LET lead == LeadingBlock(PatchIn)
           v == Min(TopMatches(PatchOut, "version"))
       IN /\ TopMatches(PatchOut, "version") # {}
          /\ TopMatches(PatchIn, "version") = {}
               => /\ SubSeq(PatchOut, 1, Len(lead)) = lead
                  /\ v > Len(lead)
                  /\ \A i \in (Len(lead) + 1)..(v - 1) : PatchOut[i] = Blank
                  /\ PatchOut[v] = KV("version", last.arg.version)
          /\ TopMatches(PatchIn, "lastUpdated") = {}
               => /\ v < Len(PatchOut)
                  /\ PatchOut[v + 1] = KV("lastUpdated", last.arg.lastUpdated)

\* a document with a two-line header and a key of the user's, and neither
\* field, was patched: the header is on top and the key below both fields
C14_Witness ==
  /\ last.op = "patch"
  /\ TopMatches(PatchIn, "version") = {} /\ TopMatches(PatchIn, "lastUpdated") = {}
  /\ Len(LeadingBlock(PatchIn)) = 2
  /\ Len(PatchIn) >= 3
  /\ PatchIn[3] = KV("theme", "dark")
  /\ PatchOut[5] = KV("theme", "dark")
  /\ PatchOut[3].key = "version" /\ PatchOut[4].key = "lastUpdated"

\* C15: when the pattern finds both fields in the top-level span, the patch
\* changes no line count, and each field's line is the line it was with the
\* new value in place of the old one: its trailing comment is kept.
C15_ReplacesValueInPlace ==
  (last.op = "patch" /\ TopMatches(PatchIn, "version") # {} /\ TopMatches(PatchIn, "lastUpdated") # {})
    => LET v == Min(TopMatches(PatchIn, "version"))
           u == Min(TopMatches(PatchIn, "lastUpdated"))
       IN /\ Len(PatchOut) = Len(PatchIn)
          /\ PatchOut[v] = [PatchIn[v] EXCEPT !.val = last.arg.version]
          /\ PatchOut[u] = [PatchIn[u] EXCEPT !.val = last.arg.lastUpdated]

\* the number of empty lines directly above the first section line
BlanksAbove(doc) ==
  LET f == FirstSection(doc)
  IN Cardinality({i \in 1..(f - 1) : \A j \in i..(f - 1) : doc[j] = Blank})

\* C16: as the spec states it, when rest is not empty exactly one newline
\* separates the patched top-level span from rest: the line right above the
\* first section line is not an empty one.
C16_ExactlyOneNewline ==
  (last.op = "patch" /\ RestOf(PatchIn) # << >>)
    => /\ SectionStarts(PatchOut) # {}
       /\ FirstSection(PatchOut) > 1
       /\ BlanksAbove(PatchOut) = 0

\* C16: amended, when rest is not empty the patched document ends with rest,
\* unchanged and starting on a line of its own, below at least one line of
\* the top-level span; the patch adds no empty line above it: the empty lines
\* directly above the first section line are those of the input, or fewer.
C16_NewlineBeforeRest ==
  (last.op = "patch" /\ RestOf(PatchIn) # << >>)
    => LET f == FirstSection(PatchOut)
       IN /\ SectionStarts(PatchOut) # {}
          /\ f > 1
          /\ SubSeq(PatchOut, f, Len(PatchOut)) = RestOf(PatchIn)
          /\ BlanksAbove(PatchOut) <= BlanksAbove(PatchIn)

\* a document whose top-level span is a header comment was patched: both
\* fields were added at the end of the span and the table follows the
\* lastUpdated line directly
C16_Witness ==
  /\ last.op = "patch" /\ RestOf(PatchIn) # << >>
  /\ FirstSection(PatchIn) = Len(LeadingBlock(PatchIn)) + 1
  /\ PatchIn[1].k = "comment"
  /\ PatchOut[FirstSection(PatchOut) - 1] = KV("lastUpdated", last.arg.lastUpdated)
  /\ SubSeq(PatchOut, FirstSection(PatchOut), Len(PatchOut)) = RestOf(PatchIn)

\* C17: for every legacy record, the config migrateFromJsonConfig returns has
\* a supported language in general.preferredLang and a supported tool in
\* general.currentTool.
C17_ConvertSanitizesEnums ==
  last.op = "convert"
    => /\ isSupportedLang(last.toml.general.preferredLang)
       /\ isCodeToolType(last.toml.general.currentTool)

\* C18: after any writeZcfConfig(c) that persisted the file, the persisted
\* general.currentTool is a supported tool and the persisted
\* general.preferredLang is a supported language.
C18_WriteSanitizesEnums ==
  (last.op = "write" /\ last.wrote)
    => /\ isCodeToolType(Get(Target(store).text, "general", "currentTool"))
       /\ isSupportedLang(Get(Target(store).text, "general", "preferredLang"))

\* C19: in the result of migrateFromJsonConfig claudeCode.enabled is true
\* exactly when the record's codeToolType is "claude-code" and codex.enabled
\* exactly when it is "codex"; both are booleans, never both true, and both
\* false for a missing or other codeToolType.
C19_EnabledFlags ==
  last.op = "convert"
    => /\ last.toml.claudeCode.enabled \in {"true", "false"}
       /\ last.toml.codex.enabled \in {"true", "false"}
       /\ last.toml.claudeCode.enabled = "true" <=> last.arg.codeToolType = "claude-code"
       /\ last.toml.codex.enabled = "true" <=> last.arg.codeToolType = "codex"
       /\ ~(last.toml.claudeCode.enabled = "true" /\ last.toml.codex.enabled = "true")
       /\ last.arg.codeToolType \notin {"claude-code", "codex"}
            => last.toml.claudeCode.enabled = "false" /\ last.toml.codex.enabled = "false"

\* records without a codeToolType and with an unknown one were converted, and
\* both flags are false
C19_Witness ==
  /\ last.op = "convert"
  /\ last.arg.codeToolType \in {undefined, "cursor"}
  /\ last.toml.claudeCode.enabled = "false" /\ last.toml.codex.enabled = "false"
  /\ last.toml.general.currentTool \in {"cursor", DEFAULT_CODE_TOOL_TYPE}

\* the value of a record's field f, or the default d when the record has none
Carried(record, f, d) == IF record[f] # undefined THEN record[f] ELSE d

\* the value of a record's field f, or the default d when the record has none
\* or an empty one
CarriedUnlessEmpty(record, f, d) == IF record[f] \notin {undefined, ""} THEN record[f] ELSE d

\* C20: as the spec states it, migrateFromJsonConfig carries every field the
\* record supplies to its canonical place and takes the default only when the
\* record has no such field: preferredLang ("en"), codeToolType (the default
\* tool), outputStyles (the built-in style), defaultOutputStyle (the built-in
\* style), install type ("global"); an empty outputStyles list is carried as
\* empty.
C20_CarriesFields ==
  last.op = "convert"
    => /\ last.toml.general.preferredLang = Carried(last.arg, "preferredLang", "en")
       /\ last.toml.general.currentTool = Carried(last.arg, "codeToolType", DEFAULT_CODE_TOOL_TYPE)
       /\ last.toml.claudeCode.outputStyles
            = Carried(last.arg, "outputStyles", "[engineer-professional]")
       /\ last.toml.claudeCode.defaultOutputStyle
            = Carried(last.arg, "defaultOutputStyle", "engineer-professional")
       /\ last.toml.claudeCode.installType = Carried(last.arg, "installType", "global")

\* C20: amended, preferredLang, codeToolType, outputStyles and the install
\* type are carried when the record supplies a non-empty value and defaulted
\* when the field is absent or an empty string; defaultOutputStyle is carried
\* whenever it is supplied, an empty string included; an empty outputStyles
\* list is carried as empty.
C20_CarriesNonEmptyFields ==
  last.op = "convert"
    => /\ last.toml.general.preferredLang = CarriedUnlessEmpty(last.arg, "preferredLang", "en")
       /\ last.toml.general.currentTool
            = CarriedUnlessEmpty(last.arg, "codeToolType", DEFAULT_CODE_TOOL_TYPE)
       /\ last.toml.claudeCode.outputStyles
            = CarriedUnlessEmpty(last.arg, "outputStyles", "[engineer-professional]")
       /\ last.toml.claudeCode.defaultOutputStyle
            = Carried(last.arg, "defaultOutputStyle", "engineer-professional")
       /\ last.toml.claudeCode.installType = CarriedUnlessEmpty(last.arg, "installType", "global")

\* a record with an empty style list, an empty default style, a local
\* installation and an empty tool selector was converted
C20_Witness ==
  /\ last.op = "convert"
  /\ last.arg.codeToolType = "" /\ last.toml.general.currentTool = DEFAULT_CODE_TOOL_TYPE
  /\ last.arg.outputStyles = "[]" /\ last.toml.claudeCode.outputStyles = "[]"
  /\ last.arg.defaultOutputStyle = "" /\ last.toml.claudeCode.defaultOutputStyle = ""
  /\ last.arg.installType = "local" /\ last.toml.claudeCode.installType = "local"
  /\ last.arg.preferredLang = "zh-CN" /\ last.toml.general.preferredLang = "zh-CN"

\* C21: createDefaultTomlConfig(lang, kind) returns version "1.0.0",
\* general.preferredLang equal to lang when lang is supported and "en" when it
\* is not, general.templateLang equal to lang, general.aiOutputLang equal to
\* lang when lang is zh-CN and unset otherwise, claudeCode enabled with exactly
\* the one built-in output style and installType equal to kind, and codex
\* disabled with the built-in prompt style.
C21_DefaultConfig ==
  last.op = "default"
    => /\ last.toml.version = "1.0.0"
       /\ last.toml.general.preferredLang
            = (IF isSupportedLang(last.arg.preferredLang) THEN last.arg.preferredLang ELSE "en")
       /\ last.toml.general.templateLang = last.arg.preferredLang
       /\ last.toml.general.aiOutputLang
            = (IF last.arg.preferredLang = "zh-CN" THEN "zh-CN" ELSE undefined)
       /\ last.toml.claudeCode.enabled = "true"
       /\ last.toml.claudeCode.outputStyles = "[engineer-professional]"
       /\ last.toml.claudeCode.installType = last.arg.installType
       /\ last.toml.codex.enabled = "false"
       /\ last.toml.codex.systemPromptStyle = "engineer-professional"

\* the config file the last call found can be read as a config
FoundReadable ==
  /\ Target(last.pre).exists
  /\ ~last.F.readFile
  /\ WellFormed(Target(last.pre).text)

\* the value of key k of group g the last call found: the one in the file, or
\* the default config's when no config can be read
FoundValue(g, k) ==
  IF FoundReadable THEN Get(Target(last.pre).text, g, k)
  ELSE createDefaultTomlConfig("en", "global", 0)[g][k]

SuccessfulUpdate(call) == call.op \in {"update", "updateToml"} /\ call.wrote

\* the top-level lastUpdated of the canonical file of a store
PersistedStamp(st) == Get(Target(st).text, "", "lastUpdated")

\* the clock value an ISO timestamp stands for
TimeOf(stamp) == CHOOSE t \in 0..(MaxClock + 1) : Iso(t) = stamp

\* after a successful update the config written and the file carry the time of
\* the call
StampedNow ==
  SuccessfulUpdate(last) => last.toml.lastUpdated = Iso(now) /\ PersistedStamp(store) = Iso(now)

\* from one successful update to the next the persisted lastUpdated does not
\* decrease
StampGrows ==
  (SuccessfulUpdate(last) /\ SuccessfulUpdate(last'))
    => TimeOf(PersistedStamp(store')) >= TimeOf(PersistedStamp(store))

\* C23: updateZcfConfig and updateTomlConfig set lastUpdated to the time of
\* the call, whatever lastUpdated the caller passes, and over successive
\* successful updates the persisted lastUpdated never decreases.
C23_UpdatesBumpStamp == []StampedNow /\ [][StampGrows]_vars

\* a second successful update, passing a lastUpdated of its own, followed a
\* first one
C23_Witness ==
  /\ SuccessfulUpdate(last)
  /\ last.arg.lastUpdated = "0"
  /\ PersistedStamp(last.pre) = Iso(1)
  /\ PersistedStamp(store) = Iso(2)

\* the legacy candidates of a store that hold a flat-JSON record
LegacyRecordPaths(st) == {p \in LegacyPaths : ~readJsonConfig(st.files[p]).null}

\* a read result r carries the settings of the legacy record at path p of st
CarriesLegacy(r, st, p) ==
  LET record == normalizeZcfConfig(readJsonConfig(st.files[p]).cfg, now)
  IN /\ ~r.null
     /\ r.cfg.preferredLang = record.preferredLang
     /\ r.cfg.codeToolType = record.codeToolType
     /\ r.cfg.outputStyles = record.outputStyles

\* C24: when the canonical config file is absent and a legacy candidate holds
\* a flat-JSON record, readZcfConfig returns a config carrying that record's
\* preferredLang, codeToolType and outputStyles, and a later readZcfConfig
\* returns them again.
C24_LegacySettingsSurvive ==
  (/\ last.op = "read"
   /\ last.F = NoFault
   /\ ~exists(Target(last.pre))
   /\ LegacyRecordPaths(last.pre) # {})
    => \E p \in LegacyRecordPaths(last.pre) :
         /\ ~last.threw /\ CarriesLegacy(last.ret, last.pre, p)
         /\ ~ReadBack.threw /\ CarriesLegacy(ReadBack, last.pre, p)

\* C25: after any readZcfConfig, getZcfConfig or updateZcfConfig that returns
\* normally, with every deletion succeeding, no legacy candidate file exists.
C25_ReadMigratesFirst ==
  (last.op \in {"read", "get", "update"} /\ ~last.threw /\ DeletionsSucceed(last.pre, last.F))
    => NoLegacyLeft(store)

\* an update found both legacy candidates and left none
C25_Witness ==
  /\ last.op = "update" /\ ~last.threw
  /\ exists(last.pre.files[Legacy1]) /\ exists(last.pre.files[Legacy2])
  /\ NoLegacyLeft(store)

\* the last call was a migration that took the move branch and whose
\* renameSync failed with a cross-device error
CrossDeviceMove ==
  /\ last.op = "migrate"
  /\ last.F.rename = "EXDEV"
  /\ ~exists(Target(last.pre)) /\ ~NoLegacyLeft(last.pre)
  /\ ~(last.F.mkdir /\ ~last.pre.dir)

\* C26: when renaming the first legacy candidate fails with a cross-device
\* error, migrateZcfConfigIfNeeded copies it and deletes it: with the copy and
\* the deletion of the source succeeding the call returns, the canonical file
\* holds the source's content, the source is gone, every other candidate
\* whose deletion did not fail is gone, and migrated is true.
C26_CrossDeviceRecovery ==
  CrossDeviceMove
    => /\ (~last.F.copy /\ FirstCandidate(last.pre) \notin last.F.rmFail) => ~last.threw
       /\ ~last.threw
            => /\ last.mig.migrated
               /\ last.mig.source = FirstCandidate(last.pre)
               /\ Target(store) = last.pre.files[FirstCandidate(last.pre)]
               /\ ~exists(store.files[FirstCandidate(last.pre)])
               /\ \A p \in LegacyPaths : p \notin last.F.rmFail => ~exists(store.files[p])

\* a cross-device rename was recovered with two candidates present
C26_Witness ==
  /\ CrossDeviceMove /\ ~last.threw
  /\ exists(last.pre.files[Legacy1]) /\ exists(last.pre.files[Legacy2])
  /\ Target(store) = last.pre.files[Legacy1]
  /\ NoLegacyLeft(store)

\* the lines of a document that lie inside a table and set version or
\* lastUpdated, each with its table
SectionStamps(doc) ==
  {<<SectionOf(doc, i), doc[i]>> :
     i \in {j \in 1..Len(doc) : /\ doc[j].k = "kv"
                                 /\ doc[j].key \in {"version", "lastUpdated"}
                                 /\ SectionOf(doc, j) # ""}}

\* C27: updateTopLevelTomlFields changes nothing from the first line that
\* begins with '[' onward, so the version and lastUpdated keys that lie inside
\* a table are the same after the patch as before: none is modified, none is
\* added.
C27_SectionsUntouched ==
  last.op = "patch"
    => /\ RestOf(PatchOut) = RestOf(PatchIn)
       /\ SectionStamps(PatchOut) = SectionStamps(PatchIn)

\* the last call reached the edit set of writeTomlConfig: the config file
\* existed and could be read
BuiltEdits ==
  /\ last.op \in {"write", "writeToml", "update", "updateToml"}
  /\ last.route \in {"edited", "fallback"}

\* the edit set the last call built, and the dotted paths in it
LastEdits == BuildEdits(last.toml)

EditPaths == {<<LastEdits[i][1], LastEdits[i][2]>> : i \in 1..Len(LastEdits)}

RequiredPaths ==
  {<<"general", "preferredLang">>, <<"general", "currentTool">>, <<"claudeCode", "enabled">>,
   <<"claudeCode", "outputStyles">>, <<"claudeCode", "installType">>, <<"codex", "enabled">>,
   <<"codex", "systemPromptStyle">>}

\* C28: the edit set writeTomlConfig builds for an existing file holds only
\* paths section.key under general, claudeCode and codex, never the top-level
\* version or lastUpdated, each path at most once, every required path, and
\* an optional path only when the config's value for it is defined.
C28_EditSet ==
  BuiltEdits
    => /\ \A i \in 1..Len(LastEdits) :
            /\ Len(LastEdits[i]) = 3
            /\ LastEdits[i][1] \in ManagedSections
            /\ LastEdits[i][2] \in ManagedKeys(LastEdits[i][1])
            /\ LastEdits[i][3] = last.toml[LastEdits[i][1]][LastEdits[i][2]]
       /\ \A i, j \in 1..Len(LastEdits) :
            (LastEdits[i][1] = LastEdits[j][1] /\ LastEdits[i][2] = LastEdits[j][2]) => i = j
       /\ RequiredPaths \subseteq EditPaths
       /\ \A path \in EditPaths \ RequiredPaths : last.toml[path[1]][path[2]] # undefined

\* an existing file was edited with a config that has a template language and
\* no claudeCode.version: the one is in the edit set, the other is not
C28_Witness ==
  /\ BuiltEdits /\ last.route = "edited"
  /\ <<"general", "templateLang">> \in EditPaths
  /\ last.toml.claudeCode.version = undefined
  /\ <<"claudeCode", "version">> \notin EditPaths

\* the default style the user of the last configureOutputStyle chose: the
\* preselected one, or the answer to the default prompt
ChosenStyle ==
  IF last.arg.preselectedStyles # undefined /\ ~Falsy(last.arg.preselectedDefault)
  THEN last.arg.preselectedDefault ELSE last.arg.promptedDefault

\* the default-style prompt of the last configureOutputStyle was cancelled
PromptCancelled == last.op = "configure" /\ ChosenStyle = undefined

\* the last configureOutputStyle completed, not cancelled, and its config
\* write succeeded
ConfiguredAndPersisted ==
  last.op = "configure" /\ ~last.threw /\ ~PromptCancelled /\ last.wrote

\* C29: after a configureOutputStyle that completes without cancellation and
\* persists, the settings file and the ZCF config agree: both carry the chosen
\* style, or the user chose none, the settings file has no outputStyle key and
\* the config has defaultOutputStyle "none" and an empty outputStyles list.
C29_SettingsAgreeWithConfig ==
  ConfiguredAndPersisted
    => LET config == Target(store).text
       IN IF ChosenStyle = "__none__"
          THEN /\ store.settings.outputStyle = undefined
               /\ Get(config, "claudeCode", "defaultOutputStyle") = "none"
               /\ Get(config, "claudeCode", "outputStyles") = "[]"
          ELSE /\ store.settings.outputStyle = ChosenStyle
               /\ Get(config, "claudeCode", "defaultOutputStyle") = ChosenStyle

\* the user chose none over a settings file that had an outputStyle and a
\* config that had a default style
C29_Witness ==
  /\ ConfiguredAndPersisted
  /\ ChosenStyle = "__none__"
  /\ last.pre.settings.outputStyle = "nekomata-engineer"
  /\ Get(Target(last.pre).text, "claudeCode", "defaultOutputStyle") = "engineer-professional"
  /\ store.settings.outputStyle = undefined
  /\ store.settings.model = "opus"

\* C30: when a default-style prompt of configureOutputStyle is cancelled the
\* call returns and the settings file, the ZCF config files and the
\* output-styles directory are as they were: no style file is copied, no
\* default style is set.
C30_CancelChangesNothing ==
  PromptCancelled
    => /\ ~last.threw
       /\ last.ret.outcome = "cancelled"
       /\ store.settings = last.pre.settings
       /\ store.files = last.pre.files /\ store.dir = last.pre.dir
       /\ store.styles = last.pre.styles

\* the prompt was cancelled after a style was ticked and the legacy files
\* were cleaned up
C30_Witness ==
  /\ PromptCancelled
  /\ last.arg.promptedStyles = "[nekomata-engineer]"
  /\ last.pre.legacy /\ ~store.legacy
  /\ store.styles = last.pre.styles
  /\ store.settings = last.pre.settings

\* ---------------------------------------------------------------- C31

\* the keys of the settings file other than outputStyle hold in after what
\* they held in before
OtherKeysKept(before, after) == \A k \in OtherSettingsKeys : after[k] = before[k]

\* the call made last left the settings file with the other keys as they
\* were and with outputStyle equal to the style given (set) or absent (clear)
SetOrClearDone ==
  /\ last.op = "setStyle" =>
        /\ store.settings.exists
        /\ store.settings.outputStyle = last.arg
        /\ OtherKeysKept(last.pre.settings, store.settings)
  /\ last.op = "clearStyle" =>
        /\ store.settings.exists
        /\ store.settings.outputStyle = undefined
        /\ OtherKeysKept(last.pre.settings, store.settings)

\* a clear that follows a set leaves the settings the set started from,
\* without outputStyle
ClearUndoesSet ==
  (last.op = "setStyle" /\ last'.op = "clearStyle") =>
    /\ store'.settings.outputStyle = undefined
    /\ OtherKeysKept(last.pre.settings, store'.settings)

\* C31: setGlobalDefaultOutputStyle and clearGlobalOutputStyle touch only the
\* outputStyle key of the settings file: every other key keeps its value, set
\* makes outputStyle equal to the given style, clear removes the key, and set
\* followed by clear yields the original settings without outputStyle.
C31_OnlyOutputStyleTouched == []SetOrClearDone /\ [][ClearUndoesSet]_vars

\* a clear that followed a set on a settings file holding another style and
\* the two other keys
C31_Witness ==
  /\ last.op = "clearStyle"
  /\ last.pre.settings.outputStyle = "engineer-professional"
  /\ store.settings.model = "opus"
  /\ store.settings.env = "{}"
  /\ store.settings.outputStyle = undefined

\* ---------------------------------------------------------------- C32

\* the lines of a .gitignore file, none when there is no file
LinesOf(file) == IF file.exists THEN SplitLines(file.content) ELSE << >>

\* a legacy V4 entry line: a line that, trimmed, is a legacy entry, bare,
\* followed by a slash or preceded by one
LegacyEntryLine(line) ==
  trim(line) \in UNION {{e, e \o "/", "/" \o e} :
                         e \in {".bmad-core", ".bmad-method", ".claude/commands/BMad",
                                "{output_folder}"}}

\* a line that makes a V6 entry present: the directory name, bare, followed
\* by a slash or preceded by one
V6EntryLine(line, dir) == trim(line) \in {dir \o "/", dir, "/" \o dir}

V6Present(lines) ==
  \A dir \in {"_bmad", "_bmad-output"} : \E n \in 1..Len(lines) : V6EntryLine(lines[n], dir)

NoLegacyLine(lines) == \A n \in 1..Len(lines) : ~LegacyEntryLine(lines[n])

\* the lines of after are the other lines of before, in order, followed by
\* nothing but the lines of the added section
OthersKept(before, after) ==
  LET others == SelectSeq(before, LAMBDA line : ~LegacyEntryLine(line))
  IN /\ Len(others) <= Len(after)
     /\ SubSeq(after, 1, Len(others)) = others
     /\ \A n \in (Len(others) + 1)..Len(after) :
          after[n] \in {"", "# BMad Method V6", "_bmad/", "_bmad-output/"}

C33_FoldersMerged ==
  (last.op = "fixOutputFolder" /\ last.ret = "true") =>
    /\ ~store.buggy.exists
    /\ store.correct.exists
    /\ \A name \in EntryNames :
         (last.pre.correct.exists /\ last.pre.correct.entries[name] # Missing)
           => store.correct.entries[name] = last.pre.correct.entries[name]
    /\ \A name \in EntryNames :
         last.pre.buggy.entries[name] # Missing
           => store.correct.entries[name] = last.pre.buggy.entries[name]

====
